---- MODULE Spec2Model ----
(***************************************************************************)
(* Model of the Algo-Catalyst backtesting engine: Backtester (Engine.cpp), *)
(* NewsMomentumStrategy (Strategy.cpp), Indicators (Indicators.cpp) and    *)
(* RegimeClassifier (AI_Regime.cpp).                                       *)
(*                                                                         *)
(* Numbers.  The C++ code computes in double; the model computes in fixed  *)
(* point on integers: prices carry PriceScale, ratios carry their own      *)
(* scale, and every division is the floor division \div.  Timestamps are   *)
(* microseconds, latency_ms_ is in whole milliseconds.                     *)
(***************************************************************************)
EXTENDS Integers, Sequences, FiniteSets, TLC

(***************************************************************************)
(* Bounds of the model                                                     *)
(***************************************************************************)
Warm == 19          \* length of the warm-up prefix of a long tick stream
MaxTail == 3        \* number of freely chosen ticks after the prefix

(***************************************************************************)
(* Scales of the fixed-point representation                                *)
(***************************************************************************)
PriceScale == 10000     \* a price p is stored as p * PriceScale
RatioScale == 1000      \* relative volume, returns, features
PctScale == 100         \* gap-up percent is stored as percent * PctScale

Symbols == {"A"}
SymOrder == <<"A", "B">>    \* std::map iterates its keys in this order
Latencies == {0, 1, 2}  \* latency_ms values given to the constructor
Step == 2000            \* microseconds between two ticks of a stream

NoTick == [timestamp_us |-> 0, price |-> 0, volume |-> 0, bid_size |-> 0, ask_size |-> 0]

(***************************************************************************)
(* Generic helpers                                                         *)
(***************************************************************************)
RECURSIVE SumSeq(_)
SumSeq(s) == IF s = <<>> THEN 0 ELSE Head(s) + SumSeq(Tail(s))

Abs(x) == IF x < 0 THEN -x ELSE x

Last(s) == s[Len(s)]

RECURSIVE SqrtSearch(_, _, _)
SqrtSearch(n, lo, hi) ==
    IF lo >= hi THEN lo
    ELSE LET mid == (lo + hi + 1) \div 2
         IN  IF mid * mid <= n THEN SqrtSearch(n, mid, hi)
                               ELSE SqrtSearch(n, lo, mid - 1)

\* std::sqrt on a fixed-point value: the floor of the square root
ISqrt(n) == SqrtSearch(n, 0, IF n < 46340 THEN n ELSE 46340)

(***************************************************************************)
(* Tick streams handed to the engine by the loader.  A stream is a warm-up *)
(* prefix followed by a tail of freely chosen ticks; the ticks of a tied   *)
(* tail carry the timestamp of the tick before the tail.                   *)
(***************************************************************************)
P0 == 100000            \* price of the first warm-up tick (10.0)
P1 == 101000            \* price of the other warm-up ticks (10.1)
VNorm == 10             \* volume of an ordinary tick
VSpike == 400           \* volume of a tick that gaps up

Shapes == {"up", "flat", "down"}
Tails == UNION {[1..n -> Shapes] : n \in 0..MaxTail}
Recipes == [warm : {0, 1, Warm}, tail : Tails, tied : BOOLEAN]

WarmTick(i) ==
    [timestamp_us |-> i * Step, price |-> IF i = 1 THEN P0 ELSE P1,
     volume |-> VNorm, bid_size |-> 2, ask_size |-> 1]

\* the shapes of a tick that gaps up by 15 percent: with a volume spike and
\* two bids per ask ("up"), without the spike ("quiet"), with one bid per ask
\* ("thin"), with no ask at all ("noask")
GapShapes == {"up", "quiet", "thin", "noask"}

ShapePrice(shape, prev) ==
    CASE shape \in GapShapes -> (prev * 115) \div 100
      [] shape = "rise"  -> (prev * 105) \div 100
      [] shape = "flat"  -> prev
      [] shape = "down"  -> (prev * 85) \div 100
      [] shape = "crash" -> (prev * 50) \div 100

TailTick(shape, prev, ts) ==
    [timestamp_us |-> ts, price |-> ShapePrice(shape, prev),
     volume |-> IF shape \in {"up", "thin", "noask", "rise", "crash"} THEN VSpike ELSE VNorm,
     bid_size |-> IF shape \in {"down", "thin"} THEN 1 ELSE 2,
     ask_size |-> IF shape = "noask" THEN 0 ELSE 1]

RECURSIVE TailTicks(_, _, _, _)
TailTicks(r, i, prev, acc) ==
    IF i > Len(r.tail) THEN acc
    ELSE LET ts == IF r.tied THEN (IF r.warm = 0 THEN 1 ELSE r.warm) * Step
                             ELSE (r.warm + i) * Step
             t  == TailTick(r.tail[i], prev, ts)
         IN  TailTicks(r, i + 1, t.price, Append(acc, t))

\* The vector<Tick> that TickLoader::loadFromCSV returns for a recipe
loadFromCSV(r) ==
    LET warm == [i \in 1..r.warm |-> WarmTick(i)]
    IN  TailTicks(r, 1, IF r.warm = 0 THEN P0 ELSE warm[r.warm].price, warm)

(***************************************************************************)
(* Events (Events.h).  One record shape for the four event classes: the    *)
(* fields a class does not have hold a filler.  id is the position of the  *)
(* event in the order of the pushes into event_queue_.                     *)
(***************************************************************************)
MarketUpdateEvent(ts, tick, id) ==
    [type |-> "MarketUpdate", timestamp_us |-> ts, tick |-> tick, symbol |-> "",
     direction |-> "NONE", quantity |-> 0, price |-> 0, commission |-> 0, id |-> id]

SignalEvent(ts, symbol, direction, quantity, price) ==
    [type |-> "SignalEvent", timestamp_us |-> ts, tick |-> NoTick, symbol |-> symbol,
     direction |-> direction, quantity |-> quantity, price |-> price,
     commission |-> 0, id |-> 0]

\* an Order that does not take the direction it is given
OrderEvent_AlwaysLong(ts, symbol, direction, quantity, price, id) ==
    [type |-> "OrderEvent", timestamp_us |-> ts, tick |-> NoTick, symbol |-> symbol,
     direction |-> "LONG", quantity |-> quantity, price |-> price,
     commission |-> 0, id |-> id]

OrderEvent(ts, symbol, direction, quantity, price, id) ==
    [type |-> "OrderEvent", timestamp_us |-> ts, tick |-> NoTick, symbol |-> symbol,
     direction |-> direction, quantity |-> quantity, price |-> price,
     commission |-> 0, id |-> id]

FillEvent(ts, symbol, direction, quantity, fill_price, commission, id) ==
    [type |-> "FillEvent", timestamp_us |-> ts, tick |-> NoTick, symbol |-> symbol,
     direction |-> direction, quantity |-> quantity, price |-> fill_price,
     commission |-> commission, id |-> id]

(***************************************************************************)
(* event_queue_: std::priority_queue over a vector, i.e. the binary heap   *)
(* of std::push_heap / std::pop_heap with EventComparator.  Index i of the *)
(* C++ vector is index i + 1 of the sequence.                              *)
(***************************************************************************)
\* the comparator with its test the wrong way round: a max-heap
EventComparator_Reversed(a, b) == a.timestamp_us < b.timestamp_us

EventComparator(a, b) == a.timestamp_us > b.timestamp_us

\* __push_heap: move the hole up while its parent compares before value
RECURSIVE PushHeapUp(_, _, _, _)
PushHeapUp(h, hole, top, value) ==
    LET parent == (hole - 1) \div 2
    IN  IF hole > top /\ EventComparator(h[parent + 1], value)
        THEN PushHeapUp([h EXCEPT ![hole + 1] = h[parent + 1]], parent, top, value)
        ELSE [h EXCEPT ![hole + 1] = value]

\* priority_queue::push: push_back, then push_heap
QueuePush(h, e) == PushHeapUp(Append(h, e), Len(h), 0, e)

\* the while loop of __adjust_heap: move the hole down to a leaf
RECURSIVE AdjustDown(_, _, _, _)
AdjustDown(h, hole, second, len) ==
    IF second < (len - 1) \div 2
    THEN LET c  == 2 * (second + 1)
             c2 == IF EventComparator(h[c + 1], h[c]) THEN c - 1 ELSE c
         IN  AdjustDown([h EXCEPT ![hole + 1] = h[c2 + 1]], c2, c2, len)
    ELSE [heap |-> h, hole |-> hole, second |-> second]

\* __adjust_heap(first, 0, len, value)
AdjustHeap(h, len, value) ==
    LET d == AdjustDown(h, 0, 0, len)
        e == IF len % 2 = 0 /\ d.second = (len - 2) \div 2
             THEN LET c == 2 * (d.second + 1)
                  IN  [heap |-> [d.heap EXCEPT ![d.hole + 1] = d.heap[c]], hole |-> c - 1]
             ELSE [heap |-> d.heap, hole |-> d.hole]
    IN  PushHeapUp(e.heap, e.hole, 0, value)

\* priority_queue::pop: pop_heap, then pop_back
QueuePop(h) ==
    IF Len(h) > 1
    THEN AdjustHeap(SubSeq(h, 1, Len(h) - 1), Len(h) - 1, h[Len(h)])
    ELSE <<>>

QueueTop(h) == h[1]

(***************************************************************************)
(* Indicators (Indicators.cpp)                                             *)
(***************************************************************************)
\* Indicators::Indicators
NewIndicators ==
    [emas_ |-> << >>, ema_12_ |-> 0, ema_26_ |-> 0, macd_signal_ema_9_ |-> 0,
     macd_histogram_history_ |-> << >>,
     cumulative_price_volume_ |-> 0, cumulative_volume_ |-> 0,
     vwap_session_start_us_ |-> 0, volume_history_ |-> << >>,
     prev_close_ |-> 0, current_price_ |-> 0, open_price_ |-> 0,
     is_first_tick_ |-> TRUE]

\* alpha * x + (1 - alpha) * prev with alpha = 2 / (period + 1)
Smooth(x, prev, period) == (2 * x + (period - 1) * prev) \div (period + 1)

\* emas_ maps a period to its value; the alpha kept beside it is 2/(period+1)
updateEMA(ind, price, period) ==
    IF period \notin DOMAIN ind.emas_
    THEN [ind EXCEPT !.emas_ = [q \in DOMAIN ind.emas_ \cup {period} |->
                                   IF q = period THEN price ELSE ind.emas_[q]]]
    ELSE [ind EXCEPT !.emas_[period] = Smooth(price, ind.emas_[period], period)]

getEMA(ind, period) ==
    IF period \in DOMAIN ind.emas_ THEN ind.emas_[period] ELSE 0

isPriceAboveEMA(ind, price, period) ==
    LET ema == getEMA(ind, period) IN ema > 0 /\ price > ema

updateMACD(ind, price) ==
    LET e12  == IF ind.ema_12_ = 0 THEN price ELSE Smooth(price, ind.ema_12_, 12)
        e26  == IF ind.ema_26_ = 0 THEN price ELSE Smooth(price, ind.ema_26_, 26)
        macd_line == e12 - e26
        sig  == IF ind.macd_signal_ema_9_ = 0 THEN macd_line
                ELSE Smooth(macd_line, ind.macd_signal_ema_9_, 9)
        histogram == macd_line - sig
        hist == Append(ind.macd_histogram_history_, histogram)
    IN  [ind EXCEPT !.ema_12_ = e12, !.ema_26_ = e26, !.macd_signal_ema_9_ = sig,
                    !.macd_histogram_history_ =
                        IF Len(hist) > 10 THEN Tail(hist) ELSE hist]

getMACDHistogram(ind) ==
    IF ind.macd_histogram_history_ = << >> THEN 0
    ELSE Last(ind.macd_histogram_history_)

isMACDHistogramExpanding(ind) ==
    LET h == ind.macd_histogram_history_
    IN  IF Len(h) < 2 THEN FALSE ELSE h[Len(h)] > h[Len(h) - 1]

\* updateVWAP adding the price without the volume as its weight
updateVWAP_Unweighted(ind, price, volume, timestamp_us) ==
    LET r == IF ind.vwap_session_start_us_ = 0
             THEN [ind EXCEPT !.vwap_session_start_us_ = timestamp_us,
                              !.cumulative_price_volume_ = 0,
                              !.cumulative_volume_ = 0]
             ELSE ind
    IN  [r EXCEPT !.cumulative_price_volume_ = @ + price,
                  !.cumulative_volume_ = @ + volume]

updateVWAP(ind, price, volume, timestamp_us) ==
    LET r == IF ind.vwap_session_start_us_ = 0
             THEN [ind EXCEPT !.vwap_session_start_us_ = timestamp_us,
                              !.cumulative_price_volume_ = 0,
                              !.cumulative_volume_ = 0]
             ELSE ind
    IN  [r EXCEPT !.cumulative_price_volume_ = @ + price * volume,
                  !.cumulative_volume_ = @ + volume]

getVWAP(ind) ==
    IF ind.cumulative_volume_ = 0 THEN 0
    ELSE ind.cumulative_price_volume_ \div ind.cumulative_volume_

resetVWAP(ind) ==
    [ind EXCEPT !.cumulative_price_volume_ = 0, !.cumulative_volume_ = 0,
                !.vwap_session_start_us_ = 0]

isPriceAboveVWAP(ind, price) ==
    LET vwap == getVWAP(ind) IN vwap > 0 /\ price > vwap

\* updateVolume dropping the newest entry on overflow, not the oldest
updateVolume_DropsNewest(ind, volume, timestamp_us) ==
    LET h == Append(ind.volume_history_, <<timestamp_us, volume>>)
    IN  [ind EXCEPT !.volume_history_ = IF Len(h) > 20 THEN SubSeq(h, 1, 20) ELSE h]

updateVolume(ind, volume, timestamp_us) ==
    LET h == Append(ind.volume_history_, <<timestamp_us, volume>>)
    IN  [ind EXCEPT !.volume_history_ = IF Len(h) > 20 THEN Tail(h) ELSE h]

\* the mean volume, carrying RatioScale
getAverageVolume(ind, lookback) ==
    LET h == ind.volume_history_
    IN  IF Len(h) < 2 THEN 0
        ELSE LET count == IF lookback < Len(h) THEN lookback ELSE Len(h)
                 vols  == [i \in 1..count |-> h[Len(h) - count + i][2]]
             IN  (SumSeq(vols) * RatioScale) \div count

\* current volume / average volume, carrying RatioScale
getRelativeVolume(ind) ==
    LET avg_vol == getAverageVolume(ind, 20)
    IN  IF avg_vol = 0 THEN 0
        ELSE IF ind.volume_history_ = << >> THEN 0
        ELSE (Last(ind.volume_history_)[2] * RatioScale * RatioScale) \div avg_vol

updatePrice(ind, price) ==
    IF ind.is_first_tick_
    THEN [ind EXCEPT !.prev_close_ = price, !.open_price_ = price,
                     !.is_first_tick_ = FALSE, !.current_price_ = price]
    ELSE [ind EXCEPT !.prev_close_ = ind.current_price_, !.current_price_ = price]

\* percent change since the previous tick, carrying PctScale
getGapUpPercent(ind) ==
    IF ind.prev_close_ = 0 THEN 0
    ELSE ((ind.current_price_ - ind.prev_close_) * 100 * PctScale) \div ind.prev_close_

(***************************************************************************)
(* RegimeClassifier (AI_Regime.cpp).  A Feature carries RatioScale in each *)
(* of its three components.                                                *)
(***************************************************************************)
Lookback == 100         \* lookback given to the classifier
NumClusters == 2        \* num_clusters given to the classifier
MinTicks == 20          \* ticks needed before the classifier clusters
WindowSize == 10        \* window_size of extractFeatures
MaxIterations == 10     \* max_iterations of performKMeans
BaseSize == 100         \* base_position_size_

ZeroFeature == [volatility |-> 0, direction |-> 0, volume_norm |-> 0]

\* RegimeClassifier::RegimeClassifier
NewClassifier(lookback, num_clusters) ==
    [tick_history_ |-> << >>, lookback_ |-> lookback, num_clusters_ |-> num_clusters,
     current_regime_ |-> "CHOPPY",
     centroids_ |-> [i \in 1..num_clusters |-> ZeroFeature]]

\* the returns (p[i] - p[i-1]) / p[i-1] of the ticks that follow a positive price
Returns(ticks) ==
    LET idx == SelectSeq([i \in 1..(Len(ticks) - 1) |-> i + 1],
                         LAMBDA i : ticks[i - 1].price > 0)
    IN  [k \in 1..Len(idx) |->
            ((ticks[idx[k]].price - ticks[idx[k] - 1].price) * RatioScale)
                \div ticks[idx[k] - 1].price]

calculateVolatility(ticks) ==
    IF Len(ticks) < 2 THEN 0
    ELSE LET returns == Returns(ticks)
         IN  IF returns = << >> THEN 0
             ELSE LET mean == SumSeq(returns) \div Len(returns)
                      sq   == [k \in 1..Len(returns) |->
                                 (returns[k] - mean) * (returns[k] - mean)]
                  IN  ISqrt(SumSeq(sq) \div Len(returns))

calculateDirection(ticks) ==
    IF Len(ticks) < 2 THEN 0
    ELSE Abs(SumSeq(Returns(ticks))) \div Len(ticks)

\* volume / (sum_vol / count), where the mean is 1.0 when sum_vol is not positive
VolumeNorm(volume, sum_vol, count) ==
    IF sum_vol > 0 THEN (volume * count * RatioScale) \div sum_vol
    ELSE volume * RatioScale

WindowFeature(window) ==
    [volatility  |-> calculateVolatility(window),
     direction   |-> calculateDirection(window),
     volume_norm |-> VolumeNorm(Last(window).volume,
                                SumSeq([i \in 1..Len(window) |-> window[i].volume]),
                                Len(window))]

extractFeatures(ticks) ==
    IF Len(ticks) < 2 THEN << >>
    ELSE LET features == [k \in 1..(IF Len(ticks) > WindowSize
                                    THEN Len(ticks) - WindowSize ELSE 0) |->
                             WindowFeature(SubSeq(ticks, k, k + WindowSize))]
         IN  IF features = << >> THEN <<WindowFeature(ticks)>> ELSE features

\* calculateDistance, kept as its square: the code only compares distances
calculateDistance(a, b) ==
    LET vol_diff == a.volatility - b.volatility
        dir_diff == a.direction - b.direction
        vol_norm_diff == a.volume_norm - b.volume_norm
    IN  vol_diff * vol_diff + dir_diff * dir_diff + vol_norm_diff * vol_norm_diff

\* the square of 0.001, the convergence threshold on a distance
ConvergedSq == 1

\* index (from 0) of the first centroid at the least distance
Nearest(feature, centroids) ==
    CHOOSE i \in 0..(Len(centroids) - 1) :
        \A j \in 0..(Len(centroids) - 1) :
            LET di == calculateDistance(feature, centroids[i + 1])
                dj == calculateDistance(feature, centroids[j + 1])
            IN  di <= dj /\ (j < i => dj > di)

calculateCentroid(cluster) ==
    IF cluster = << >> THEN ZeroFeature
    ELSE [volatility  |-> SumSeq([i \in 1..Len(cluster) |-> cluster[i].volatility])
                              \div Len(cluster),
          direction   |-> SumSeq([i \in 1..Len(cluster) |-> cluster[i].direction])
                              \div Len(cluster),
          volume_norm |-> SumSeq([i \in 1..Len(cluster) |-> cluster[i].volume_norm])
                              \div Len(cluster)]

\* the ascending sort of one component of the features
SortedColumn(features, Get(_)) ==
    SortSeq([i \in 1..Len(features) |-> Get(features[i])], LAMBDA x, y : x < y)

\* the percentile seeding of performKMeans
SeedCentroids(features, centroids, num_clusters) ==
    LET n == Len(features)
        volatilities == SortedColumn(features, LAMBDA f : f.volatility)
        directions   == SortedColumn(features, LAMBDA f : f.direction)
        volumes      == SortedColumn(features, LAMBDA f : f.volume_norm)
        At(q) == [volatility  |-> volatilities[q + 1],
                  direction   |-> directions[q + 1],
                  volume_norm |-> volumes[q + 1]]
    IN  [i \in 1..Len(centroids) |->
            IF i = 1 THEN At(n \div 4)
            ELSE IF i = 2 /\ num_clusters > 1 THEN At((3 * n) \div 4)
            ELSE centroids[i]]

\* the Lloyd iterations of performKMeans, from iteration iter on
RECURSIVE KMeansIterate(_, _, _, _)
KMeansIterate(features, centroids, num_clusters, iter) ==
    IF iter >= MaxIterations THEN centroids
    ELSE LET clusters == [i \in 1..num_clusters |->
                             SelectSeq(features,
                                       LAMBDA f : Nearest(f, centroids) = i - 1)]
             moved == [i \in 1..num_clusters |->
                          IF clusters[i] = << >> THEN centroids[i]
                          ELSE calculateCentroid(clusters[i])]
             converged == \A i \in 1..num_clusters :
                              clusters[i] = << >>
                              \/ calculateDistance(moved[i], centroids[i]) <= ConvergedSq
             next == [i \in 1..Len(centroids) |->
                         IF i <= num_clusters THEN moved[i] ELSE centroids[i]]
         IN  IF converged THEN next
             ELSE KMeansIterate(features, next, num_clusters, iter + 1)

performKMeans(features, centroids, num_clusters) ==
    IF features = << >> THEN centroids
    ELSE KMeansIterate(features, SeedCentroids(features, centroids, num_clusters),
                       num_clusters, 0)

\* the feature of the current tick, over the whole tick history
CurrentFeature(history, tick, features) ==
    IF Len(history) >= 2
    THEN [volatility  |-> calculateVolatility(history),
          direction   |-> calculateDirection(history),
          volume_norm |-> (tick.volume * Len(history) * RatioScale)
                              \div SumSeq([i \in 1..Len(history) |-> history[i].volume])]
    ELSE Last(features)

\* thresholds 0.02 and 0.01 of the trending override
TrendVolatility == 20
TrendDirection == 10

\* updateAndClassify with its warm-up test one tick short
updateAndClassify_OneShort(rc, tick) ==
    LET pushed  == Append(rc.tick_history_, tick)
        history == IF Len(pushed) > rc.lookback_ THEN Tail(pushed) ELSE pushed
    IN  IF Len(history) < MinTicks - 1
        THEN [rc EXCEPT !.tick_history_ = history, !.current_regime_ = "CHOPPY"]
        ELSE LET features  == extractFeatures(history)
                 centroids == performKMeans(features, rc.centroids_, rc.num_clusters_)
                 current_feature == CurrentFeature(history, tick, features)
                 nearest_cluster == Nearest(current_feature, centroids)
                 regime == IF nearest_cluster = 0
                           THEN IF current_feature.volatility > TrendVolatility
                                   /\ current_feature.direction > TrendDirection
                                THEN "TRENDING" ELSE "CHOPPY"
                           ELSE "TRENDING"
             IN  [rc EXCEPT !.tick_history_ = history, !.centroids_ = centroids,
                            !.current_regime_ = regime]

updateAndClassify(rc, tick) ==
    LET pushed  == Append(rc.tick_history_, tick)
        history == IF Len(pushed) > rc.lookback_ THEN Tail(pushed) ELSE pushed
    IN  IF Len(history) < MinTicks
        THEN [rc EXCEPT !.tick_history_ = history, !.current_regime_ = "CHOPPY"]
        ELSE LET features  == extractFeatures(history)
                 centroids == performKMeans(features, rc.centroids_, rc.num_clusters_)
                 current_feature == CurrentFeature(history, tick, features)
                 nearest_cluster == Nearest(current_feature, centroids)
                 regime == IF nearest_cluster = 0
                           THEN IF current_feature.volatility > TrendVolatility
                                   /\ current_feature.direction > TrendDirection
                                THEN "TRENDING" ELSE "CHOPPY"
                           ELSE "TRENDING"
             IN  [rc EXCEPT !.tick_history_ = history, !.centroids_ = centroids,
                            !.current_regime_ = regime]

\* multiplier times 10: 0.0 for CHOPPY, 1.5 for TRENDING
getPositionMultiplier(rc) ==
    CASE rc.current_regime_ = "CHOPPY"   -> 0
      [] rc.current_regime_ = "TRENDING" -> 15
      [] OTHER                           -> 10

(***************************************************************************)
(* Strategy and NewsMomentumStrategy (Strategy.h, Strategy.cpp).  The      *)
(* classifier a strategy points to is kept beside it, in regime_classifier.*)
(***************************************************************************)
MultScale == 10         \* scale of getPositionMultiplier

\* Strategy::Strategy, NewsMomentumStrategy::NewsMomentumStrategy and the
\* member initialisers of Strategy.h
NewsMomentumStrategy(symbol, has_classifier) ==
    [symbol_ |-> symbol, position_ |-> 0, avg_fill_price_ |-> 0,
     indicators_ |-> NewIndicators, regime_classifier_ |-> has_classifier,
     min_relative_volume_ |-> 5 * RatioScale,
     min_gap_up_percent_ |-> 10 * PctScale,
     min_bid_ask_ratio_ |-> (15 * RatioScale) \div 10,
     base_position_size_ |-> BaseSize,
     was_long_ema_above_short_ |-> FALSE, entry_timestamp_us_ |-> 0]

\* the test of hasPosition inverted
hasPosition_Inverted(st) == st.position_ = 0

hasPosition(st) == st.position_ # 0

checkVolumeSpike(st) == getRelativeVolume(st.indicators_) >= st.min_relative_volume_

checkGapUp(st) == getGapUpPercent(st.indicators_) >= st.min_gap_up_percent_

checkEMATrend(st, price) ==
    IF price = 0 THEN FALSE
    ELSE /\ isPriceAboveEMA(st.indicators_, price, 90)
         /\ isPriceAboveEMA(st.indicators_, price, 200)
         /\ getEMA(st.indicators_, 90) > getEMA(st.indicators_, 200)

\* returns the result and the value of was_long_ema_above_short_ afterwards
checkEMACrossover(st) ==
    LET ema_9  == getEMA(st.indicators_, 9)
        ema_90 == getEMA(st.indicators_, 90)
    IN  IF ema_9 = 0 \/ ema_90 = 0
        THEN [result |-> FALSE, was |-> st.was_long_ema_above_short_]
        ELSE LET current_long_above == ema_9 > ema_90
                 crossover == current_long_above /\ ~st.was_long_ema_above_short_
             IN  [result |-> crossover \/ current_long_above,
                  was |-> current_long_above]

checkVWAP(st, price) ==
    IF price = 0 THEN FALSE ELSE isPriceAboveVWAP(st.indicators_, price)

checkMACD(st) == isMACDHistogramExpanding(st.indicators_)

\* checkOrderBookImbalance without the test for ask_size = 0: the division
\* of a positive bid_size by 0.0 is +infinity, which is above any ratio
checkOrderBookImbalance_NoZeroTest(st, tick) ==
    IF tick.ask_size = 0 THEN tick.bid_size > 0
    ELSE (tick.bid_size * RatioScale) \div tick.ask_size >= st.min_bid_ask_ratio_

checkOrderBookImbalance(st, tick) ==
    IF tick.ask_size = 0 THEN FALSE
    ELSE (tick.bid_size * RatioScale) \div tick.ask_size >= st.min_bid_ask_ratio_

\* returns the result and the value of was_long_ema_above_short_ afterwards
checkEntryConditions(st, rc, tick) ==
    LET keep == st.was_long_ema_above_short_
    IN  IF ~checkVolumeSpike(st) \/ ~checkGapUp(st)
        THEN [result |-> FALSE, was |-> keep]
        ELSE IF ~checkEMATrend(st, tick.price)
        THEN [result |-> FALSE, was |-> keep]
        ELSE LET cross == checkEMACrossover(st)
             IN  IF ~cross.result THEN [result |-> FALSE, was |-> cross.was]
                 ELSE IF ~checkVWAP(st, tick.price)
                 THEN [result |-> FALSE, was |-> cross.was]
                 ELSE IF ~checkMACD(st) THEN [result |-> FALSE, was |-> cross.was]
                 ELSE IF ~checkOrderBookImbalance(st, tick)
                 THEN [result |-> FALSE, was |-> cross.was]
                 ELSE IF st.regime_classifier_ /\ rc.current_regime_ # "TRENDING"
                 THEN [result |-> FALSE, was |-> cross.was]
                 ELSE [result |-> TRUE, was |-> cross.was]

\* checkExitConditions leaving on any histogram that is not expanding,
\* whatever its sign
checkExitConditions_AnyContraction(st, rc, tick) ==
    IF ~isPriceAboveVWAP(st.indicators_, tick.price) THEN TRUE
    ELSE IF ~isMACDHistogramExpanding(st.indicators_) THEN TRUE
    ELSE IF st.regime_classifier_ /\ rc.current_regime_ = "CHOPPY" THEN TRUE
    ELSE FALSE

checkExitConditions(st, rc, tick) ==
    IF ~isPriceAboveVWAP(st.indicators_, tick.price) THEN TRUE
    ELSE IF ~isMACDHistogramExpanding(st.indicators_)
            /\ getMACDHistogram(st.indicators_) < 0 THEN TRUE
    ELSE IF st.regime_classifier_ /\ rc.current_regime_ = "CHOPPY" THEN TRUE
    ELSE FALSE

\* the size without the regime's multiplier
calculatePositionSize_Base(st, rc) == st.base_position_size_

calculatePositionSize(st, rc) ==
    LET multiplier == IF st.regime_classifier_ THEN getPositionMultiplier(rc) ELSE 0
    IN  IF st.regime_classifier_ /\ multiplier > 0
        THEN (st.base_position_size_ * multiplier) \div MultScale
        ELSE st.base_position_size_

\* the indicator updates of processMarketUpdate, in the order of the code
UpdateIndicators(ind, tick, timestamp_us) ==
    LET i1 == updatePrice(ind, tick.price)
        i2 == updateEMA(i1, tick.price, 9)
        i3 == updateEMA(i2, tick.price, 90)
        i4 == updateEMA(i3, tick.price, 200)
        i5 == updateMACD(i4, tick.price)
        i6 == updateVWAP(i5, tick.price, tick.volume, timestamp_us)
    IN  updateVolume(i6, tick.volume, timestamp_us)

\* processMarketUpdate without the test for a position and without the early
\* return: the exit is evaluated on every tick, and then the entry
processMarketUpdate_ExitUnguarded(st, rc, event) ==
    LET tick == event.tick
        timestamp_us == event.timestamp_us
        rc1 == IF st.regime_classifier_ THEN updateAndClassify(rc, tick) ELSE rc
        st1 == [st EXCEPT !.indicators_ = UpdateIndicators(@, tick, timestamp_us)]
        exits == IF checkExitConditions(st1, rc1, tick)
                 THEN <<SignalEvent(timestamp_us, st1.symbol_, "EXIT",
                                    Abs(st1.position_), tick.price)>>
                 ELSE << >>
        entry == checkEntryConditions(st1, rc1, tick)
        st2 == [st1 EXCEPT !.was_long_ema_above_short_ = entry.was]
        position_size == calculatePositionSize(st2, rc1)
    IN  IF entry.result /\ position_size > 0
        THEN [strategy |-> [st2 EXCEPT !.entry_timestamp_us_ = timestamp_us],
              classifier |-> rc1,
              signals |-> Append(exits, SignalEvent(timestamp_us, st2.symbol_, "LONG",
                                                    position_size, tick.price))]
        ELSE [strategy |-> st2, classifier |-> rc1, signals |-> exits]

\* NewsMomentumStrategy::processMarketUpdate: the strategy and the classifier
\* afterwards, and the signals returned
processMarketUpdate(st, rc, event) ==
    LET tick == event.tick
        timestamp_us == event.timestamp_us
        rc1 == IF st.regime_classifier_ THEN updateAndClassify(rc, tick) ELSE rc
        st1 == [st EXCEPT !.indicators_ = UpdateIndicators(@, tick, timestamp_us)]
    IN  IF hasPosition(st1)
        THEN [strategy |-> st1, classifier |-> rc1,
              signals |-> IF checkExitConditions(st1, rc1, tick)
                          THEN <<SignalEvent(timestamp_us, st1.symbol_, "EXIT",
                                             Abs(st1.position_), tick.price)>>
                          ELSE << >>]
        ELSE LET entry == checkEntryConditions(st1, rc1, tick)
                 st2 == [st1 EXCEPT !.was_long_ema_above_short_ = entry.was]
                 position_size == calculatePositionSize(st2, rc1)
             IN  IF entry.result /\ position_size > 0
                 THEN [strategy |-> [st2 EXCEPT !.entry_timestamp_us_ = timestamp_us],
                       classifier |-> rc1,
                       signals |-> <<SignalEvent(timestamp_us, st2.symbol_, "LONG",
                                                 position_size, tick.price)>>]
                 ELSE [strategy |-> st2, classifier |-> rc1, signals |-> << >>]

(***************************************************************************)
(* Backtester (Engine.h, Engine.cpp)                                       *)
(***************************************************************************)
VARIABLES
    pc,                 \* "setup": before run(); "running": in the loop of run(); "done"
    latency_ms_,
    current_time_us_,
    event_queue_,       \* the heap of events
    strategies_,        \* symbol -> strategy
    regime_classifier,  \* symbol -> the classifier its strategy points to
    tick_data_,         \* symbol -> ticks
    positions_,         \* symbol -> Position
    trade_log_,
    pushed,             \* number of events pushed into event_queue_ so far
    dispatched,         \* the events dequeued by run(), in order
    signal_log,         \* the signals the strategies returned, with their context
    fill_log,           \* the fills applied, with the quantity held before
    drained,            \* what run() found when the queue drained
    loaded,             \* the loadTickData calls: symbol, ids of its events, result
    routed,             \* for each MarketUpdate dispatched, the strategy that got it
    previous_run,       \* the trade logs of the runs of the program before this one
    calls               \* the calls made on an object that is driven directly

vars == <<pc, latency_ms_, current_time_us_, event_queue_, strategies_,
          regime_classifier, tick_data_, positions_, trade_log_,
          pushed, dispatched, signal_log, fill_log, drained,
          loaded, routed, previous_run, calls>>

\* 1000 seconds, the range of the symbol heuristic
MatchRange == 1000000000
\* the commission is 0.0001 of the traded value
CommissionDiv == 10000

\* Backtester::Backtester
Init ==
    /\ pc = "setup"
    /\ latency_ms_ \in Latencies
    /\ current_time_us_ = 0
    /\ event_queue_ = << >>
    /\ strategies_ = << >>
    /\ regime_classifier = << >>
    /\ tick_data_ = << >>
    /\ positions_ = << >>
    /\ trade_log_ = << >>
    /\ pushed = 0
    /\ dispatched = << >>
    /\ signal_log = << >>
    /\ fill_log = << >>
    /\ drained = [open |-> {}, trades |-> 0]
    /\ loaded = << >>
    /\ routed = << >>
    /\ previous_run = << >>
    /\ calls = << >>

\* m with key k set to v (std::map::operator[] assignment)
MapPut(m, k, v) == [x \in DOMAIN m \cup {k} |-> IF x = k THEN v ELSE m[x]]

\* the keys of a map over symbols, in iteration order
Keys(m) == SelectSeq(SymOrder, LAMBDA x : x \in DOMAIN m)

\* the loop of loadTickData that pushes one MarketUpdateEvent per tick
RECURSIVE PushTicks(_, _, _, _)
PushTicks(q, ticks, i, n) ==
    IF i > Len(ticks) THEN q
    ELSE PushTicks(QueuePush(q, MarketUpdateEvent(ticks[i].timestamp_us, ticks[i], n + i)),
                   ticks, i + 1, n)

\* the loop pushing every signal twice
RECURSIVE PushEvents_Twice(_, _, _)
PushEvents_Twice(q, events, i) ==
    IF i > Len(events) THEN q
    ELSE PushEvents_Twice(QueuePush(QueuePush(q, events[i]), events[i]), events, i + 1)

\* the loop of processMarketUpdate that pushes the signals returned, from i on
RECURSIVE PushEvents(_, _, _)
PushEvents(q, events, i) ==
    IF i > Len(events) THEN q
    ELSE PushEvents(QueuePush(q, events[i]), events, i + 1)

\* loadTickData storing the vector before it tests it for emptiness
LoadTickData_StoresEmpty(symbol, recipe) ==
    /\ pc = "setup"
    /\ symbol \notin DOMAIN tick_data_
    /\ \A i \in 1..Len(loaded) : loaded[i].symbol # symbol
    /\ LET ticks == loadFromCSV(recipe)
       IN  /\ tick_data_' = MapPut(tick_data_, symbol, ticks)
           /\ event_queue_' = PushTicks(event_queue_, ticks, 1, pushed)
           /\ pushed' = pushed + Len(ticks)
           /\ loaded' = Append(loaded, [symbol |-> symbol, from |-> pushed + 1,
                                        to |-> pushed + Len(ticks),
                                        ok |-> ticks # << >>])
    /\ UNCHANGED <<pc, latency_ms_, current_time_us_, strategies_, regime_classifier,
                   positions_, trade_log_, dispatched, signal_log, fill_log, drained,
                   routed, previous_run, calls>>

\* Backtester::loadTickData, called once for a symbol; ok is the value returned
LoadTickData(symbol, recipe) ==
    /\ pc = "setup"
    /\ symbol \notin DOMAIN tick_data_
    /\ \A i \in 1..Len(loaded) : loaded[i].symbol # symbol
    /\ LET ticks == loadFromCSV(recipe)
       IN  IF ticks = << >>
           THEN /\ loaded' = Append(loaded, [symbol |-> symbol, from |-> pushed + 1,
                                             to |-> pushed, ok |-> FALSE])
                /\ UNCHANGED <<tick_data_, event_queue_, pushed>>
           ELSE /\ tick_data_' = MapPut(tick_data_, symbol, ticks)
                /\ event_queue_' = PushTicks(event_queue_, ticks, 1, pushed)
                /\ pushed' = pushed + Len(ticks)
                /\ loaded' = Append(loaded, [symbol |-> symbol, from |-> pushed + 1,
                                             to |-> pushed + Len(ticks), ok |-> TRUE])
    /\ UNCHANGED <<pc, latency_ms_, current_time_us_, strategies_, regime_classifier,
                   positions_, trade_log_, dispatched, signal_log, fill_log, drained,
                   routed, previous_run, calls>>

\* Backtester::registerStrategy, with the strategy main.cpp builds
RegisterStrategy(symbol) ==
    /\ pc = "setup"
    /\ symbol \notin DOMAIN strategies_
    /\ strategies_' = MapPut(strategies_, symbol, NewsMomentumStrategy(symbol, TRUE))
    /\ regime_classifier' =
           MapPut(regime_classifier, symbol, NewClassifier(Lookback, NumClusters))
    /\ UNCHANGED <<pc, latency_ms_, current_time_us_, event_queue_, tick_data_,
                   positions_, trade_log_, pushed, dispatched, signal_log, fill_log,
                   drained, loaded, routed, previous_run, calls>>

\* entry of Backtester::run
RunStart ==
    /\ pc = "setup"
    /\ pc' = "running"
    /\ UNCHANGED <<latency_ms_, current_time_us_, event_queue_, strategies_,
                   regime_classifier, tick_data_, positions_, trade_log_,
                   pushed, dispatched, signal_log, fill_log, drained,
                   loaded, routed, previous_run, calls>>

\* the symbol processMarketUpdate resolves for a tick; "" when it finds none
ResolveSymbol(tick) ==
    LET likely == SelectSeq(Keys(tick_data_),
                    LAMBDA sym :
                        /\ tick_data_[sym] # << >>
                        /\ tick.timestamp_us >= tick_data_[sym][1].timestamp_us
                        /\ tick.timestamp_us
                              <= tick_data_[sym][1].timestamp_us + MatchRange)
    IN  IF likely # << >> THEN likely[1]
        ELSE IF DOMAIN tick_data_ # {}
        THEN IF Cardinality(DOMAIN tick_data_) = 1 THEN Keys(tick_data_)[1]
             ELSE IF DOMAIN strategies_ # {} THEN Keys(strategies_)[1]
             ELSE ""
        ELSE ""

\* an event whose symbol has no strategy handed to the first strategy registered
StrategyFor_FirstRegistered(event_symbol) ==
    IF event_symbol # "" /\ event_symbol \in DOMAIN strategies_ THEN event_symbol
    ELSE IF DOMAIN strategies_ # {} THEN Keys(strategies_)[1]
    ELSE ""

\* the key of the strategy processMarketUpdate calls for a resolved symbol;
\* "" when the symbol is empty or strategies_.find does not find it
StrategyFor(event_symbol) ==
    IF event_symbol # "" /\ event_symbol \in DOMAIN strategies_ THEN event_symbol
    ELSE ""

\* the latency taken off the timestamp
applyLatency_Backdated(timestamp_us) == timestamp_us - latency_ms_ * 1000

\* the latency added as if it were in microseconds
applyLatency_Millis(timestamp_us) == timestamp_us + latency_ms_

\* the fill time also moved by the time the machine's clock measured, which
\* differs from one run of the program to the next
applyLatency_WallClock(timestamp_us) ==
    timestamp_us + latency_ms_ * 1000 + (IF previous_run = << >> THEN 0 ELSE 1)

\* Backtester::applyLatency
applyLatency(timestamp_us) == timestamp_us + latency_ms_ * 1000

NewPosition(symbol) ==
    [symbol |-> symbol, quantity |-> 0, avg_price |-> 0, direction |-> "LONG",
     entry_timestamp_us |-> 0, entry_regime |-> "UNKNOWN"]

\* closePosition with the commission of the closing trade taken off its pnl
closePosition_NetOfCommission(positions, log, symbol, exit_price, timestamp_us) ==
    IF symbol \notin DOMAIN positions \/ positions[symbol].quantity = 0
    THEN [positions |-> positions, trade_log |-> log]
    ELSE LET position == positions[symbol]
             commission == (exit_price * position.quantity) \div CommissionDiv
             trade == [entry_timestamp_us |-> position.entry_timestamp_us,
                       exit_timestamp_us |-> timestamp_us,
                       symbol |-> symbol,
                       entry_price |-> position.avg_price,
                       exit_price |-> exit_price,
                       quantity |-> position.quantity,
                       pnl |-> (exit_price - position.avg_price) * position.quantity
                                   - commission,
                       regime |-> position.entry_regime]
         IN  [positions |-> [positions EXCEPT ![symbol].quantity = 0,
                                              ![symbol].avg_price = 0,
                                              ![symbol].entry_timestamp_us = 0],
              trade_log |-> Append(log, trade)]

\* closePosition leaving the average price of the closed position in place
closePosition_KeepsAvgPrice(positions, log, symbol, exit_price, timestamp_us) ==
    IF symbol \notin DOMAIN positions \/ positions[symbol].quantity = 0
    THEN [positions |-> positions, trade_log |-> log]
    ELSE LET position == positions[symbol]
             pnl == IF position.direction = "LONG"
                    THEN (exit_price - position.avg_price) * position.quantity
                    ELSE (position.avg_price - exit_price) * position.quantity
             trade == [entry_timestamp_us |-> position.entry_timestamp_us,
                       exit_timestamp_us |-> timestamp_us,
                       symbol |-> symbol,
                       entry_price |-> position.avg_price,
                       exit_price |-> exit_price,
                       quantity |-> position.quantity,
                       pnl |-> pnl,
                       regime |-> position.entry_regime]
         IN  [positions |-> [positions EXCEPT ![symbol].quantity = 0,
                                              ![symbol].entry_timestamp_us = 0],
              trade_log |-> Append(log, trade)]

\* Backtester::closePosition: the positions and the trade log afterwards
closePosition(positions, log, symbol, exit_price, timestamp_us) ==
    IF symbol \notin DOMAIN positions \/ positions[symbol].quantity = 0
    THEN [positions |-> positions, trade_log |-> log]
    ELSE LET position == positions[symbol]
             pnl == IF position.direction = "LONG"
                    THEN (exit_price - position.avg_price) * position.quantity
                    ELSE (position.avg_price - exit_price) * position.quantity
             trade == [entry_timestamp_us |-> position.entry_timestamp_us,
                       exit_timestamp_us |-> timestamp_us,
                       symbol |-> symbol,
                       entry_price |-> position.avg_price,
                       exit_price |-> exit_price,
                       quantity |-> position.quantity,
                       pnl |-> pnl,
                       regime |-> position.entry_regime]
         IN  [positions |-> [positions EXCEPT ![symbol].quantity = 0,
                                              ![symbol].avg_price = 0,
                                              ![symbol].entry_timestamp_us = 0],
              trade_log |-> Append(log, trade)]

\* updatePosition without the test for an open position: every LONG Fill is
\* handled as one that opens a position
updatePosition_AlwaysOpens(positions, log, fill) ==
    LET symbol == fill.symbol
        created == IF symbol \in DOMAIN positions THEN positions
                   ELSE MapPut(positions, symbol, NewPosition(symbol))
        position == created[symbol]
    IN  IF fill.direction = "EXIT"
        THEN IF position.quantity # 0
             THEN closePosition(created, log, symbol, fill.price, fill.timestamp_us)
             ELSE [positions |-> created, trade_log |-> log]
        ELSE IF fill.direction = "LONG"
        THEN [positions |->
                 [created EXCEPT ![symbol].quantity = fill.quantity,
                                 ![symbol].avg_price = fill.price,
                                 ![symbol].direction = "LONG",
                                 ![symbol].entry_timestamp_us = fill.timestamp_us,
                                 ![symbol].entry_regime =
                                     IF symbol \in DOMAIN strategies_
                                     THEN "TRENDING" ELSE @],
              trade_log |-> log]
        ELSE [positions |-> created, trade_log |-> log]

\* updatePosition with a SHORT Fill handled as a LONG Fill is, the position
\* taking the direction of the Fill
updatePosition_ShortOpens(positions, log, fill) ==
    LET symbol == fill.symbol
        created == IF symbol \in DOMAIN positions THEN positions
                   ELSE MapPut(positions, symbol, NewPosition(symbol))
        position == created[symbol]
    IN  IF fill.direction = "EXIT"
        THEN IF position.quantity # 0
             THEN closePosition(created, log, symbol, fill.price, fill.timestamp_us)
             ELSE [positions |-> created, trade_log |-> log]
        ELSE IF position.quantity = 0
             THEN [positions |->
                      [created EXCEPT ![symbol].quantity = fill.quantity,
                                      ![symbol].avg_price = fill.price,
                                      ![symbol].direction = fill.direction,
                                      ![symbol].entry_timestamp_us = fill.timestamp_us,
                                      ![symbol].entry_regime =
                                          IF symbol \in DOMAIN strategies_
                                          THEN "TRENDING" ELSE @],
                   trade_log |-> log]
             ELSE LET total_cost == position.avg_price * position.quantity
                                        + fill.price * fill.quantity
                      quantity == position.quantity + fill.quantity
                  IN  [positions |->
                          [created EXCEPT ![symbol].quantity = quantity,
                                          ![symbol].avg_price = total_cost \div quantity],
                       trade_log |-> log]

\* Backtester::updatePosition: the positions and the trade log afterwards
updatePosition(positions, log, fill) ==
    LET symbol == fill.symbol
        created == IF symbol \in DOMAIN positions THEN positions
                   ELSE MapPut(positions, symbol, NewPosition(symbol))
        position == created[symbol]
    IN  IF fill.direction = "EXIT"
        THEN IF position.quantity # 0
             THEN closePosition(created, log, symbol, fill.price, fill.timestamp_us)
             ELSE [positions |-> created, trade_log |-> log]
        ELSE IF fill.direction = "LONG"
        THEN IF position.quantity = 0
             THEN [positions |->
                      [created EXCEPT ![symbol].quantity = fill.quantity,
                                      ![symbol].avg_price = fill.price,
                                      ![symbol].direction = "LONG",
                                      ![symbol].entry_timestamp_us = fill.timestamp_us,
                                      ![symbol].entry_regime =
                                          IF symbol \in DOMAIN strategies_
                                          THEN "TRENDING" ELSE @],
                   trade_log |-> log]
             ELSE LET total_cost == position.avg_price * position.quantity
                                        + fill.price * fill.quantity
                      quantity == position.quantity + fill.quantity
                  IN  [positions |->
                          [created EXCEPT ![symbol].quantity = quantity,
                                          ![symbol].avg_price = total_cost \div quantity],
                       trade_log |-> log]
        ELSE [positions |-> created, trade_log |-> log]

\* the quantity the Backtester holds for a symbol
Held(symbol) ==
    IF symbol \in DOMAIN positions_ THEN positions_[symbol].quantity ELSE 0

\* how many MarketUpdates the strategy registered for a symbol has been given
Received(symbol) ==
    Cardinality({i \in 1..Len(routed) : routed[i].symbol = symbol})

\* the head of the loop of run(): take the top event and set the clock
Dequeue(type) ==
    /\ pc = "running"
    /\ event_queue_ # << >>
    /\ QueueTop(event_queue_).type = type
    /\ current_time_us_' = QueueTop(event_queue_).timestamp_us
    /\ dispatched' = Append(dispatched, QueueTop(event_queue_))

\* Backtester::processMarketUpdate
DispatchMarketUpdate ==
    /\ Dequeue("MarketUpdate")
    /\ LET event == QueueTop(event_queue_)
           queue == QueuePop(event_queue_)
           event_symbol == StrategyFor(ResolveSymbol(event.tick))
       IN  IF event_symbol # ""
           THEN \E out \in {processMarketUpdate(strategies_[event_symbol],
                                               regime_classifier[event_symbol], event)} :
                LET signals == [i \in 1..Len(out.signals) |->
                                   [out.signals[i] EXCEPT !.id = pushed + i]]
                IN  /\ strategies_' = [strategies_ EXCEPT ![event_symbol] = out.strategy]
                    /\ regime_classifier' =
                           [regime_classifier EXCEPT ![event_symbol] = out.classifier]
                    /\ event_queue_' =
                           PushEvents(queue, signals, 1)
                    /\ pushed' = pushed + Len(signals)
                    /\ signal_log' =
                           signal_log \o
                           [i \in 1..Len(signals) |->
                               [signal |-> signals[i], tick |-> event.tick,
                                position |-> strategies_[event_symbol].position_,
                                held |-> Held(signals[i].symbol),
                                regime |-> out.classifier.current_regime_,
                                nth |-> Received(event_symbol) + 1]]
                    /\ routed' = Append(routed, [id |-> event.id, symbol |-> event_symbol])
           ELSE /\ event_queue_' = queue
                /\ routed' = Append(routed, [id |-> event.id, symbol |-> ""])
                /\ UNCHANGED <<strategies_, regime_classifier, pushed, signal_log>>
    /\ UNCHANGED <<pc, latency_ms_, tick_data_, positions_, trade_log_, fill_log, drained,
                   loaded, previous_run, calls>>

\* Backtester::processSignalEvent
DispatchSignal ==
    /\ Dequeue("SignalEvent")
    /\ LET event == QueueTop(event_queue_)
           order_event == OrderEvent(event.timestamp_us, event.symbol, event.direction,
                                     event.quantity, event.price, pushed + 1)
       IN  event_queue_' = QueuePush(QueuePop(event_queue_), order_event)
    /\ pushed' = pushed + 1
    /\ UNCHANGED <<pc, latency_ms_, strategies_, regime_classifier, tick_data_,
                   positions_, trade_log_, signal_log, fill_log, drained,
                   loaded, routed, previous_run, calls>>

\* the lookup without the order price as its starting value
FillPrice_NoFallback(symbol, fill_timestamp_us, order_price) ==
    IF symbol \in DOMAIN tick_data_
    THEN LET ticks == tick_data_[symbol]
             later == SelectSeq(ticks, LAMBDA t : t.timestamp_us >= fill_timestamp_us)
         IN  IF later # << >> THEN later[1].price ELSE 0
    ELSE 0

\* the price of the first tick at or after the fill time, else the order price
FillPrice(symbol, fill_timestamp_us, order_price) ==
    IF symbol \in DOMAIN tick_data_
    THEN LET ticks == tick_data_[symbol]
             later == SelectSeq(ticks, LAMBDA t : t.timestamp_us >= fill_timestamp_us)
         IN  IF later # << >> THEN later[1].price ELSE order_price
    ELSE order_price

\* Backtester::processOrderEvent
DispatchOrder ==
    /\ Dequeue("OrderEvent")
    /\ LET event == QueueTop(event_queue_)
           fill_timestamp_us == applyLatency(event.timestamp_us)
           fill_price == FillPrice(event.symbol, fill_timestamp_us, event.price)
           commission == (fill_price * event.quantity) \div CommissionDiv
           fill_event == FillEvent(fill_timestamp_us, event.symbol, event.direction,
                                   event.quantity, fill_price, commission, pushed + 1)
       IN  event_queue_' = QueuePush(QueuePop(event_queue_), fill_event)
    /\ pushed' = pushed + 1
    /\ UNCHANGED <<pc, latency_ms_, strategies_, regime_classifier, tick_data_,
                   positions_, trade_log_, signal_log, fill_log, drained,
                   loaded, routed, previous_run, calls>>

\* Backtester::processFillEvent
DispatchFill ==
    /\ Dequeue("FillEvent")
    /\ LET event == QueueTop(event_queue_)
           out == updatePosition(positions_, trade_log_, event)
       IN  /\ positions_' = out.positions
           /\ trade_log_' = out.trade_log
           /\ fill_log' = Append(fill_log,
                  [fill |-> event, held |-> Held(event.symbol),
                   regime |-> IF event.symbol \in DOMAIN regime_classifier
                              THEN regime_classifier[event.symbol].current_regime_
                              ELSE "UNKNOWN"])
    /\ event_queue_' = QueuePop(event_queue_)
    /\ UNCHANGED <<pc, latency_ms_, strategies_, regime_classifier, tick_data_,
                   pushed, signal_log, drained, loaded, routed, previous_run, calls>>

\* front() taken where back() is meant
back_Front(ticks) == ticks[1]

\* std::vector::back of a tick array
back(ticks) == ticks[Len(ticks)]

\* the loop closing every position that has ticks, whatever its quantity
RECURSIVE ForceClose_AnyQuantity(_, _, _, _)
ForceClose_AnyQuantity(keys, i, positions, log) ==
    IF i > Len(keys) THEN [positions |-> positions, trade_log |-> log]
    ELSE LET symbol == keys[i]
             ticks == IF symbol \in DOMAIN tick_data_ THEN tick_data_[symbol] ELSE << >>
         IN  IF ticks # << >>
             THEN LET last_tick == back(ticks)
                      position == positions[symbol]
                      trade == [entry_timestamp_us |-> position.entry_timestamp_us,
                                exit_timestamp_us |-> last_tick.timestamp_us,
                                symbol |-> symbol,
                                entry_price |-> position.avg_price,
                                exit_price |-> last_tick.price,
                                quantity |-> position.quantity,
                                pnl |-> (last_tick.price - position.avg_price)
                                            * position.quantity,
                                regime |-> position.entry_regime]
                  IN  ForceClose_AnyQuantity(keys, i + 1,
                          [positions EXCEPT ![symbol].quantity = 0,
                                            ![symbol].avg_price = 0,
                                            ![symbol].entry_timestamp_us = 0],
                          Append(log, trade))
             ELSE ForceClose_AnyQuantity(keys, i + 1, positions, log)

\* the loop of run() that closes the remaining positions, from key i on
RECURSIVE ForceClose(_, _, _, _)
ForceClose(keys, i, positions, log) ==
    IF i > Len(keys) THEN [positions |-> positions, trade_log |-> log]
    ELSE LET symbol == keys[i]
             ticks == IF symbol \in DOMAIN tick_data_ THEN tick_data_[symbol] ELSE << >>
         IN  IF positions[symbol].quantity # 0 /\ ticks # << >>
             THEN LET last_tick == back(ticks)
                      out == closePosition(positions, log, symbol, last_tick.price,
                                           last_tick.timestamp_us)
                  IN  ForceClose(keys, i + 1, out.positions, out.trade_log)
             ELSE ForceClose(keys, i + 1, positions, log)

\* the end of run(): the queue is empty, the remaining positions are closed
RunFinish ==
    /\ pc = "running"
    /\ event_queue_ = << >>
    /\ LET out == ForceClose(Keys(positions_), 1, positions_, trade_log_)
           open == {s \in DOMAIN positions_ : positions_[s].quantity # 0}
       IN  /\ positions_' = out.positions
           /\ trade_log_' = out.trade_log
           /\ drained' = [open |-> open, trades |-> Len(trade_log_)]
           \* tick_data_[symbol] creates the entry it does not find
           /\ tick_data_' = [s \in DOMAIN tick_data_ \cup open |->
                                IF s \in DOMAIN tick_data_ THEN tick_data_[s] ELSE << >>]
    /\ pc' = "done"
    /\ UNCHANGED <<latency_ms_, current_time_us_, event_queue_, strategies_,
                   regime_classifier, pushed, dispatched, signal_log, fill_log,
                   loaded, routed, previous_run, calls>>

Next ==
    \/ \E symbol \in Symbols, recipe \in Recipes : LoadTickData(symbol, recipe)
    \/ \E symbol \in Symbols : RegisterStrategy(symbol)
    \/ RunStart
    \/ DispatchMarketUpdate
    \/ DispatchSignal
    \/ DispatchOrder
    \/ DispatchFill
    \/ RunFinish

Spec == Init /\ [][Next]_vars

\* what every step of run() does to pc and dispatched: one iteration of the
\* loop dequeues the top event, and the code after the loop ends the run.
\* A running state always has such a step among DispatchMarketUpdate,
\* DispatchSignal, DispatchOrder, DispatchFill and RunFinish, and no other
\* step of Next changes pc or dispatched this way.
RunStep ==
    /\ pc = "running"
    /\ \/ /\ event_queue_ # << >>
          /\ dispatched' = Append(dispatched, QueueTop(event_queue_))
          /\ pc' = pc
       \/ /\ event_queue_ = << >>
          /\ pc' = "done"
          /\ dispatched' = dispatched

\* run() is sequential code: once entered, it keeps taking its next step
SpecRun == Init /\ [][Next]_vars /\ WF_<<pc, dispatched>>(RunStep)

(***************************************************************************)
(* The program run a second time on the same input: main() builds a new    *)
(* Backtester, classifier and strategy, loads the same ticks in the same   *)
(* order and calls run().  The trade log of the first run is kept aside.   *)
(***************************************************************************)
\* the loadTickData calls of the first run, made again from call i on
RECURSIVE ReloadQueue(_, _)
ReloadQueue(q, i) ==
    IF i > Len(loaded) THEN q
    ELSE IF ~loaded[i].ok THEN ReloadQueue(q, i + 1)
    ELSE ReloadQueue(PushTicks(q, tick_data_[loaded[i].symbol], 1, loaded[i].from - 1),
                     i + 1)

Rerun ==
    /\ pc = "done"
    /\ previous_run = << >>
    /\ previous_run' = <<trade_log_>>
    /\ pc' = "running"
    /\ current_time_us_' = 0
    /\ event_queue_' = ReloadQueue(<< >>, 1)
    /\ tick_data_' = [sym \in {loaded[i].symbol : i \in {k \in 1..Len(loaded) : loaded[k].ok}}
                         |-> tick_data_[sym]]
    /\ strategies_' = [sym \in DOMAIN strategies_ |-> NewsMomentumStrategy(sym, TRUE)]
    /\ regime_classifier' =
           [sym \in DOMAIN regime_classifier |-> NewClassifier(Lookback, NumClusters)]
    /\ positions_' = << >>
    /\ trade_log_' = << >>
    /\ dispatched' = << >>
    /\ signal_log' = << >>
    /\ fill_log' = << >>
    /\ routed' = << >>
    /\ drained' = [open |-> {}, trades |-> 0]
    /\ pushed' = IF loaded = << >> THEN 0 ELSE loaded[Len(loaded)].to
    /\ UNCHANGED <<latency_ms_, loaded, calls>>

NextRerun == Next \/ Rerun

SpecRerun == Init /\ [][NextRerun]_vars

\* Backtester::getTotalPnL
getTotalPnL == SumSeq([i \in 1..Len(trade_log_) |-> trade_log_[i].pnl])

\* Backtester::getNumTrades
getNumTrades == Len(trade_log_)

(***************************************************************************)
(* The Backtester driven by any Strategy.  Strategy is an interface: its    *)
(* processMarketUpdate is pure virtual, and the Backtester pushes whatever  *)
(* signals the registered object returns.  Here a strategy returns, on each *)
(* MarketUpdate, nothing or one Signal of any direction.                    *)
(***************************************************************************)
AnyTail == 2            \* ticks after the first one in these runs
AnyBase == 50           \* the smaller of the two quantities a strategy asks for

AnyRecipes == {r \in Recipes : r.warm = 1 /\ ~r.tied /\ Len(r.tail) = AnyTail}

\* Strategy::Strategy
AnyStrategy(symbol) == [symbol_ |-> symbol, position_ |-> 0, avg_fill_price_ |-> 0]

\* what an implementation of Strategy::processMarketUpdate may return
AnySignals(st, event) ==
    {<< >>}
    \cup {<<SignalEvent(event.timestamp_us, st.symbol_, d[1], d[2], event.tick.price)>> :
              d \in {<<"LONG", AnyBase>>, <<"LONG", 2 * AnyBase>>,
                      <<"EXIT", 2 * AnyBase>>, <<"SHORT", 2 * AnyBase>>}}

\* Backtester::registerStrategy with some implementation of Strategy
RegisterAnyStrategy(symbol) ==
    /\ pc = "setup"
    /\ symbol \notin DOMAIN strategies_
    /\ strategies_' = MapPut(strategies_, symbol, AnyStrategy(symbol))
    /\ UNCHANGED <<pc, latency_ms_, current_time_us_, event_queue_, regime_classifier,
                   tick_data_, positions_, trade_log_, pushed, dispatched, signal_log,
                   fill_log, drained, loaded, routed, previous_run, calls>>

\* Backtester::processMarketUpdate with some implementation of Strategy
DispatchMarketUpdateAny ==
    /\ Dequeue("MarketUpdate")
    /\ LET event == QueueTop(event_queue_)
           queue == QueuePop(event_queue_)
           event_symbol == StrategyFor(ResolveSymbol(event.tick))
       IN  IF event_symbol # ""
           THEN \E returned \in AnySignals(strategies_[event_symbol], event) :
                LET signals == [i \in 1..Len(returned) |->
                                   [returned[i] EXCEPT !.id = pushed + i]]
                IN  /\ event_queue_' =
                           PushEvents(queue, signals, 1)
                    /\ pushed' = pushed + Len(signals)
                    /\ signal_log' =
                           signal_log \o
                           [i \in 1..Len(signals) |->
                               [signal |-> signals[i], tick |-> event.tick,
                                position |-> strategies_[event_symbol].position_,
                                held |-> Held(signals[i].symbol),
                                regime |-> "UNKNOWN",
                                nth |-> Received(event_symbol) + 1]]
                    /\ routed' = Append(routed, [id |-> event.id, symbol |-> event_symbol])
           ELSE /\ event_queue_' = queue
                /\ routed' = Append(routed, [id |-> event.id, symbol |-> ""])
                /\ UNCHANGED <<pushed, signal_log>>
    /\ UNCHANGED <<pc, latency_ms_, strategies_, regime_classifier, tick_data_,
                   positions_, trade_log_, fill_log, drained, loaded, previous_run, calls>>

NextAny ==
    \/ \E symbol \in Symbols, recipe \in AnyRecipes : LoadTickData(symbol, recipe)
    \/ \E symbol \in Symbols : RegisterAnyStrategy(symbol)
    \/ RunStart
    \/ DispatchMarketUpdateAny
    \/ DispatchSignal
    \/ DispatchOrder
    \/ DispatchFill
    \/ RunFinish

SpecAny == Init /\ [][NextAny]_vars

(***************************************************************************)
(* run() called again on a Backtester whose run() has returned, nothing     *)
(* being loaded in between.                                                 *)
(***************************************************************************)
MaxRuns == 2            \* further calls of run()

\* a whole call of Backtester::run that finds the queue empty: the loop is
\* not entered, and the remaining positions are closed
RunAgain ==
    /\ pc = "done"
    /\ event_queue_ = << >>
    /\ Len(calls) < MaxRuns
    /\ LET out == ForceClose(Keys(positions_), 1, positions_, trade_log_)
           open == {s \in DOMAIN positions_ : positions_[s].quantity # 0}
       IN  /\ positions_' = out.positions
           /\ trade_log_' = out.trade_log
           /\ tick_data_' = [s \in DOMAIN tick_data_ \cup open |->
                                IF s \in DOMAIN tick_data_ THEN tick_data_[s] ELSE << >>]
    /\ calls' = Append(calls, [op |-> "run", price |-> 0, volume |-> 0,
                               timestamp_us |-> 0, reset |-> FALSE])
    /\ UNCHANGED <<pc, latency_ms_, current_time_us_, event_queue_, strategies_,
                   regime_classifier, pushed, dispatched, signal_log, fill_log,
                   drained, loaded, routed, previous_run>>

NextAgain ==
    \/ \E symbol \in Symbols, recipe \in AnyRecipes : LoadTickData(symbol, recipe)
    \/ \E symbol \in Symbols : RegisterAnyStrategy(symbol)
    \/ RunStart
    \/ DispatchMarketUpdateAny
    \/ DispatchSignal
    \/ DispatchOrder
    \/ DispatchFill
    \/ RunFinish
    \/ RunAgain

SpecAgain == Init /\ [][NextAgain]_vars

(***************************************************************************)
(* The Backtester with two symbols loaded, each with a short stream, and    *)
(* any Strategy registered for them.                                        *)
(***************************************************************************)
MultiTail == 1          \* ticks after the first one in these streams

MultiSymbols == {"A", "B"}

MultiRecipes == {r \in Recipes : r.warm = 1 /\ ~r.tied /\ Len(r.tail) <= MultiTail}

NextMulti ==
    \/ \E symbol \in MultiSymbols, recipe \in MultiRecipes : LoadTickData(symbol, recipe)
    \/ \E symbol \in MultiSymbols : RegisterAnyStrategy(symbol)
    \/ RunStart
    \/ DispatchMarketUpdateAny
    \/ DispatchSignal
    \/ DispatchOrder
    \/ DispatchFill
    \/ RunFinish

SpecMulti == Init /\ [][NextMulti]_vars

(***************************************************************************)
(* The Backtester with one or two symbols loaded, each with a stream of a   *)
(* single tick or little more, and any Strategy registered for either.      *)
(***************************************************************************)
DropTail == 0           \* ticks after the first one in these streams

DropRecipes == {r \in Recipes : r.warm = 1 /\ ~r.tied /\ Len(r.tail) <= DropTail}

NextDrop ==
    \/ \E symbol \in MultiSymbols, recipe \in DropRecipes : LoadTickData(symbol, recipe)
    \/ \E symbol \in MultiSymbols : RegisterAnyStrategy(symbol)
    \/ RunStart
    \/ DispatchMarketUpdateAny
    \/ DispatchSignal
    \/ DispatchOrder
    \/ DispatchFill
    \/ RunFinish

SpecDrop == Init /\ [][NextDrop]_vars

(***************************************************************************)
(* The program with the classifier built with either of two lookbacks, over *)
(* streams whose gap-up ticks come around the twentieth tick.               *)
(***************************************************************************)
ShortLookback == 18     \* a lookback below the ticks the classifier needs

Lookbacks == {ShortLookback, Lookback}

WarmupRecipes == [warm : {Warm - 2, Warm - 1, Warm}, tail : Tails, tied : {FALSE}]

\* Backtester::registerStrategy, with the strategy of main.cpp over a
\* classifier of a given lookback
RegisterStrategyWith(symbol, lookback) ==
    /\ pc = "setup"
    /\ symbol \notin DOMAIN strategies_
    /\ strategies_' = MapPut(strategies_, symbol, NewsMomentumStrategy(symbol, TRUE))
    /\ regime_classifier' =
           MapPut(regime_classifier, symbol, NewClassifier(lookback, NumClusters))
    /\ UNCHANGED <<pc, latency_ms_, current_time_us_, event_queue_, tick_data_,
                   positions_, trade_log_, pushed, dispatched, signal_log, fill_log,
                   drained, loaded, routed, previous_run, calls>>

NextWarmup ==
    \/ \E symbol \in Symbols, recipe \in WarmupRecipes : LoadTickData(symbol, recipe)
    \/ \E symbol \in Symbols, lookback \in Lookbacks :
           RegisterStrategyWith(symbol, lookback)
    \/ RunStart
    \/ DispatchMarketUpdate
    \/ DispatchSignal
    \/ DispatchOrder
    \/ DispatchFill
    \/ RunFinish

SpecWarmup == Init /\ [][NextWarmup]_vars

(***************************************************************************)
(* The program over streams whose ticks after the warm-up miss one or the   *)
(* other of the entry conditions.                                           *)
(***************************************************************************)
EntryTail == 2          \* ticks after the warm-up prefix in these streams

EntryShapes == GapShapes \cup {"rise", "flat", "crash"}

EntryRecipes ==
    [warm : {Warm}, tail : UNION {[1..n -> EntryShapes] : n \in 0..EntryTail},
     tied : {FALSE}]

NextEntry ==
    \/ \E symbol \in Symbols, recipe \in EntryRecipes : LoadTickData(symbol, recipe)
    \/ \E symbol \in Symbols : RegisterStrategy(symbol)
    \/ RunStart
    \/ DispatchMarketUpdate
    \/ DispatchSignal
    \/ DispatchOrder
    \/ DispatchFill
    \/ RunFinish

SpecEntry == Init /\ [][NextEntry]_vars

(***************************************************************************)
(* The program over streams long enough for the MACD histogram to turn      *)
(* after a run of gap-up ticks.                                             *)
(***************************************************************************)
ExitTail == 4           \* ticks after the warm-up prefix in these streams

ExitRecipes ==
    [warm : {Warm}, tail : UNION {[1..n -> Shapes] : n \in 0..ExitTail}, tied : {FALSE}]

NextExit ==
    \/ \E symbol \in Symbols, recipe \in ExitRecipes : LoadTickData(symbol, recipe)
    \/ \E symbol \in Symbols : RegisterStrategy(symbol)
    \/ RunStart
    \/ DispatchMarketUpdate
    \/ DispatchSignal
    \/ DispatchOrder
    \/ DispatchFill
    \/ RunFinish

SpecExit == Init /\ [][NextExit]_vars

(***************************************************************************)
(* An Indicators object driven directly through its public VWAP methods,    *)
(* with any price, volume and timestamp: the member indicators_ of the      *)
(* strategy kept for symbol A.                                              *)
(***************************************************************************)
MaxCalls == 3           \* calls made on the object

VwapPrices == {P0, P1, ShapePrice("up", P1)}
VwapVolumes == {0, VNorm, VSpike}
VwapTimes == {0, Step, 2 * Step}

InitIndicators ==
    /\ pc = "indicators"
    /\ latency_ms_ = 0
    /\ current_time_us_ = 0
    /\ event_queue_ = << >>
    /\ strategies_ = [sym \in {"A"} |-> NewsMomentumStrategy(sym, FALSE)]
    /\ regime_classifier = << >>
    /\ tick_data_ = << >>
    /\ positions_ = << >>
    /\ trade_log_ = << >>
    /\ pushed = 0
    /\ dispatched = << >>
    /\ signal_log = << >>
    /\ fill_log = << >>
    /\ drained = [open |-> {}, trades |-> 0]
    /\ loaded = << >>
    /\ routed = << >>
    /\ previous_run = << >>
    /\ calls = << >>

\* a call of Indicators::updateVWAP; reset tells whether it began a session
CallUpdateVWAP(price, volume, timestamp_us) ==
    /\ pc = "indicators"
    /\ Len(calls) < MaxCalls
    /\ strategies_' = [strategies_ EXCEPT !["A"].indicators_ =
                           updateVWAP(@, price, volume, timestamp_us)]
    /\ calls' = Append(calls,
           [op |-> "updateVWAP", price |-> price, volume |-> volume,
            timestamp_us |-> timestamp_us,
            reset |-> strategies_["A"].indicators_.vwap_session_start_us_ = 0])
    /\ UNCHANGED <<pc, latency_ms_, current_time_us_, event_queue_, regime_classifier,
                   tick_data_, positions_, trade_log_, pushed, dispatched, signal_log,
                   fill_log, drained, loaded, routed, previous_run>>

\* a call of Indicators::resetVWAP
CallResetVWAP ==
    /\ pc = "indicators"
    /\ Len(calls) < MaxCalls
    /\ strategies_' = [strategies_ EXCEPT !["A"].indicators_ = resetVWAP(@)]
    /\ calls' = Append(calls,
           [op |-> "resetVWAP", price |-> 0, volume |-> 0, timestamp_us |-> 0,
            reset |-> TRUE])
    /\ UNCHANGED <<pc, latency_ms_, current_time_us_, event_queue_, regime_classifier,
                   tick_data_, positions_, trade_log_, pushed, dispatched, signal_log,
                   fill_log, drained, loaded, routed, previous_run>>

NextIndicators ==
    \/ \E price \in VwapPrices, volume \in VwapVolumes, timestamp_us \in VwapTimes :
           CallUpdateVWAP(price, volume, timestamp_us)
    \/ CallResetVWAP

SpecIndicators == InitIndicators /\ [][NextIndicators]_vars

(***************************************************************************)
(* Properties                                                              *)
(***************************************************************************)
LongFills(s) ==
    Cardinality({i \in 1..Len(fill_log) :
                    fill_log[i].fill.symbol = s /\ fill_log[i].fill.direction = "LONG"})

ExitFills(s) ==
    Cardinality({i \in 1..Len(fill_log) :
                    fill_log[i].fill.symbol = s /\ fill_log[i].fill.direction = "EXIT"})

\* C1: the timestamps of the events run() dequeues never decrease, and
\* current_time_us_ is the timestamp of the event dequeued last.
C1_DispatchNonDecreasing ==
    /\ \A i \in 1..(Len(dispatched) - 1) :
           dispatched[i].timestamp_us <= dispatched[i + 1].timestamp_us
    /\ dispatched # << >> => current_time_us_ = Last(dispatched).timestamp_us

\* a run with latency in which a Fill pushed while draining was dispatched
\* before a later MarketUpdate
C1_Witness ==
    /\ latency_ms_ > 0
    /\ \E i, j \in 1..Len(dispatched) :
           /\ i < j
           /\ dispatched[i].type = "FillEvent"
           /\ dispatched[j].type = "MarketUpdate"
           /\ dispatched[i].timestamp_us < dispatched[j].timestamp_us

\* C2: of two events with the same timestamp, the one pushed first is
\* dequeued first.
C2_FifoAmongTies ==
    \A i, j \in 1..Len(dispatched) :
        (i < j /\ dispatched[i].timestamp_us = dispatched[j].timestamp_us)
            => dispatched[i].id < dispatched[j].id

\* C3: on every MarketUpdate run() dispatches after a Fill was applied, a
\* strategy whose symbol had a LONG Fill applied last holds a position
\* (hasPosition() is true), and one whose symbol had an EXIT Fill applied last
\* is flat.
C3_StrategyFollowsFills ==
    (pc = "running" /\ dispatched # << >> /\ Last(dispatched).type = "MarketUpdate") =>
        \A s \in DOMAIN strategies_ :
            LET fills == SelectSeq(fill_log, LAMBDA f : f.fill.symbol = s)
            IN  fills # << >> =>
                    /\ Last(fills).fill.direction = "LONG" => hasPosition(strategies_[s])
                    /\ Last(fills).fill.direction = "EXIT" => ~hasPosition(strategies_[s])

\* C4: a LONG Signal is returned only while the Backtester holds quantity 0
\* for the symbol.
C4_NoEntryWhileOpen ==
    \A i \in 1..Len(signal_log) :
        signal_log[i].signal.direction = "LONG" => signal_log[i].held = 0

\* C5: no LONG Fill is applied to a position that is already open, so an open
\* position has the quantity and the price of the Fill that opened it.
C5_NeverAddsToPosition ==
    /\ \A i \in 1..Len(fill_log) :
           fill_log[i].fill.direction = "LONG" => fill_log[i].held = 0
    /\ \A s \in DOMAIN positions_ :
           positions_[s].quantity # 0 =>
               \E i \in 1..Len(fill_log) :
                   /\ fill_log[i].fill.symbol = s
                   /\ fill_log[i].fill.quantity = positions_[s].quantity
                   /\ fill_log[i].fill.price = positions_[s].avg_price

\* C6: an EXIT Signal is returned only by a strategy that holds a position.
C6_ExitOnlyWhenHolding ==
    \A i \in 1..Len(signal_log) :
        signal_log[i].signal.direction = "EXIT" => signal_log[i].position # 0

\* a flat strategy has just processed a tick on which the exit predicate is
\* true and the regime is TRENDING, and returned no signal for it
C6_Witness ==
    /\ dispatched # << >>
    /\ Last(dispatched).type = "MarketUpdate"
    /\ \E s \in DOMAIN strategies_ :
           /\ strategies_[s].indicators_.current_price_ = Last(dispatched).tick.price
           /\ strategies_[s].position_ = 0
           /\ regime_classifier[s].current_regime_ = "TRENDING"
           /\ checkExitConditions(strategies_[s], regime_classifier[s],
                                  Last(dispatched).tick)
           /\ \A i \in 1..Len(signal_log) :
                  signal_log[i].tick # Last(dispatched).tick

\* C7: when the queue has drained, each symbol has had as many LONG Fills as
\* EXIT Fills plus its open position.
C7_FillBalance ==
    (pc = "running" /\ event_queue_ = << >>) =>
        \A s \in Symbols :
            LongFills(s) = ExitFills(s) + (IF Held(s) # 0 THEN 1 ELSE 0)

\* C8: no TradeRecord exits before it enters.
C8_ExitNotBeforeEntry ==
    \A i \in 1..Len(trade_log_) :
        trade_log_[i].exit_timestamp_us >= trade_log_[i].entry_timestamp_us

\* C9: after run() every position has quantity 0, and each position open when
\* the queue drained has exactly one TradeRecord after the drain, at the price
\* and the timestamp of the last tick of its symbol.
C9_ForceClose ==
    pc = "done" =>
        /\ \A s \in DOMAIN positions_ : positions_[s].quantity = 0
        /\ Len(trade_log_) = drained.trades + Cardinality(drained.open)
        /\ \A s \in drained.open :
               LET closing == {i \in (drained.trades + 1)..Len(trade_log_) :
                                  trade_log_[i].symbol = s}
               IN  /\ Cardinality(closing) = 1
                   /\ \A i \in closing :
                          /\ trade_log_[i].exit_price = Last(tick_data_[s]).price
                          /\ trade_log_[i].exit_timestamp_us
                                 = Last(tick_data_[s]).timestamp_us

\* run() has returned after closing a position that was open at the drain
C9_Witness == pc = "done" /\ drained.open # {} /\ Len(trade_log_) > drained.trades

\* the only Signal of the run is a LONG on the last tick of the stream, and
\* no tick is at or after its fill time
EntryOnLastTickOnly ==
    /\ Len(signal_log) = 1
    /\ signal_log[1].signal.direction = "LONG"
    /\ signal_log[1].signal.symbol \in DOMAIN tick_data_
    /\ LET ticks == tick_data_[signal_log[1].signal.symbol]
       IN  /\ ticks # << >>
           /\ signal_log[1].tick = Last(ticks)
           /\ \A k \in 1..Len(ticks) :
                  ticks[k].timestamp_us < applyLatency(signal_log[1].signal.timestamp_us)

\* C10: if the entry fires on the last tick only and no tick is at or after
\* the fill time, run() ends with one TradeRecord that enters and exits at
\* the price of the last tick.
C10_EntryOnLastTick ==
    (pc = "done" /\ EntryOnLastTickOnly) =>
        LET last_tick == Last(tick_data_[signal_log[1].signal.symbol])
        IN  /\ Len(trade_log_) = 1
            /\ trade_log_[1].entry_price = last_tick.price
            /\ trade_log_[1].exit_price = last_tick.price

\* run() has returned from a stream whose only entry fired on its last tick
C10_Witness == pc = "done" /\ EntryOnLastTickOnly /\ Len(trade_log_) = 1

\* C11: each TradeRecord's pnl is (exit_price - entry_price) * quantity, with
\* no commission taken off, and getTotalPnL() is the sum of that expression
\* over the trade log.
C11_PnlIsPriceDifference ==
    /\ \A i \in 1..Len(trade_log_) :
           trade_log_[i].pnl = (trade_log_[i].exit_price - trade_log_[i].entry_price)
                                   * trade_log_[i].quantity
    /\ getTotalPnL = SumSeq([i \in 1..Len(trade_log_) |->
                               (trade_log_[i].exit_price - trade_log_[i].entry_price)
                                   * trade_log_[i].quantity])

\* two trades are logged, one closed by an EXIT Fill that carries a
\* commission and one with a pnl that is not zero
C11_Witness ==
    /\ Len(trade_log_) >= 2
    /\ \E i \in 1..Len(trade_log_) : trade_log_[i].pnl # 0
    /\ \E i \in 1..Len(fill_log) :
           /\ fill_log[i].fill.direction = "EXIT"
           /\ fill_log[i].held # 0
           /\ fill_log[i].fill.commission > 0

C13_EntryRegimeFromClassifier ==
    /\ (fill_log # << >> /\ dispatched # << >>
            /\ Last(dispatched).id = Last(fill_log).fill.id
            /\ Last(fill_log).fill.direction = "LONG"
            /\ Last(fill_log).held = 0)
           => positions_[Last(fill_log).fill.symbol].entry_regime = Last(fill_log).regime
    /\ (pc = "done" /\ Len(fill_log) = 1 /\ Len(trade_log_) = 1)
           => trade_log_[1].regime = fill_log[1].regime

\* C14: when a MarketUpdate is dispatched to a strategy while the Backtester
\* holds a position for its symbol, and the classifier goes from TRENDING to
\* CHOPPY on it, the strategy returns an EXIT Signal for that tick.
C14_ExitOnRegimeFlip ==
    [][\A s \in DOMAIN strategies_ :
          (/\ Len(routed') = Len(routed) + 1
           /\ Last(routed').symbol = s
           /\ Held(s) # 0
           /\ regime_classifier[s].current_regime_ = "TRENDING"
           /\ regime_classifier'[s].current_regime_ = "CHOPPY")
          => /\ Len(signal_log') = Len(signal_log) + 1
             /\ Last(signal_log').signal.direction = "EXIT"
             /\ Last(signal_log').signal.symbol = s]_vars

\* the symbol whose loadTickData call pushed the event with this id
Origin(id) ==
    LET loads == SelectSeq(loaded, LAMBDA c : c.from <= id /\ id <= c.to)
    IN  IF loads = << >> THEN "" ELSE loads[1].symbol

\* C15: each MarketUpdate is processed by the strategy registered for the
\* symbol whose ticks it was made from, and by no other.
C15_RoutedToOwnStrategy ==
    \A i \in 1..Len(routed) :
        routed[i].symbol = IF Origin(routed[i].id) \in DOMAIN strategies_
                           THEN Origin(routed[i].id) ELSE ""

\* the ids of the events in a queue
QueueIds(q) == {q[i].id : i \in 1..Len(q)}

\* the price of the first tick of the symbol at or after a time, else a
\* given price
FirstPriceFrom(symbol, time_us, otherwise) ==
    LET ticks == IF symbol \in DOMAIN tick_data_ THEN tick_data_[symbol] ELSE << >>
        at_or_after == {k \in 1..Len(ticks) : ticks[k].timestamp_us >= time_us}
    IN  IF at_or_after = {} THEN otherwise
        ELSE ticks[CHOOSE k \in at_or_after : \A m \in at_or_after : k <= m].price

\* C16: dispatching an Order takes it off the queue and pushes exactly one
\* event, a Fill at order.ts + latency_ms * 1000, priced at the first tick of
\* the symbol at or after that time (the order price when there is none),
\* with commission fill_price * qty * 0.0001.
C16_OrderYieldsOneFill ==
    [][(Len(dispatched') = Len(dispatched) + 1 /\ Last(dispatched').type = "OrderEvent")
       => LET order == Last(dispatched')
              fill_ts == order.timestamp_us + latency_ms_ * 1000
              fill_price == FirstPriceFrom(order.symbol, fill_ts, order.price)
          IN  /\ Len(event_queue_') = Len(event_queue_)
              /\ pushed' = pushed + 1
              /\ QueueIds(event_queue_')
                     = (QueueIds(event_queue_) \ {order.id}) \cup {pushed + 1}
              /\ \A i \in 1..Len(event_queue_') :
                     event_queue_'[i].id = pushed + 1 =>
                         /\ event_queue_'[i].type = "FillEvent"
                         /\ event_queue_'[i].timestamp_us = fill_ts
                         /\ event_queue_'[i].price = fill_price
                         /\ event_queue_'[i].commission
                                = (fill_price * order.quantity) \div 10000]_vars

\* with a latency, a Fill was dispatched at its Order's time plus the latency,
\* at a tick's price that is not the order price, with a commission
C16_Witness ==
    /\ latency_ms_ > 0
    /\ \E i, j \in 1..Len(dispatched) :
           /\ i < j
           /\ dispatched[i].type = "OrderEvent"
           /\ dispatched[j].type = "FillEvent"
           /\ dispatched[j].timestamp_us = dispatched[i].timestamp_us + latency_ms_ * 1000
           /\ dispatched[j].price # dispatched[i].price
           /\ dispatched[j].commission > 0

\* the event pushed by the step, when the step pushed exactly one
Pushed(q) == {q[i] : i \in {k \in 1..Len(q) : q[k].id = pushed + 1}}

\* how many events of a type, symbol, direction and quantity were dequeued
Dequeued(type, symbol, direction, quantity) ==
    Cardinality({i \in 1..Len(dispatched) :
                    /\ dispatched[i].type = type
                    /\ dispatched[i].symbol = symbol
                    /\ dispatched[i].direction = direction
                    /\ dispatched[i].quantity = quantity})

\* how many Signals of a symbol, direction and quantity the strategies returned
Returned(symbol, direction, quantity) ==
    Cardinality({i \in 1..Len(signal_log) :
                    /\ signal_log[i].signal.symbol = symbol
                    /\ signal_log[i].signal.direction = direction
                    /\ signal_log[i].signal.quantity = quantity})

\* the symbol, direction and quantity of every Signal returned and of every
\* Signal, Order and Fill dequeued
ChainKeys ==
    {<<signal_log[i].signal.symbol, signal_log[i].signal.direction,
       signal_log[i].signal.quantity>> : i \in 1..Len(signal_log)}
    \cup {<<dispatched[i].symbol, dispatched[i].direction, dispatched[i].quantity>> :
              i \in {k \in 1..Len(dispatched) : dispatched[k].type # "MarketUpdate"}}

\* per symbol, direction and quantity there are never more Fills than Orders,
\* nor more Orders than Signals, and as many of each once the queue is empty
ChainBalanced ==
    \A key \in ChainKeys :
        LET signals == Dequeued("SignalEvent", key[1], key[2], key[3])
            orders  == Dequeued("OrderEvent", key[1], key[2], key[3])
            fills   == Dequeued("FillEvent", key[1], key[2], key[3])
            returned == Returned(key[1], key[2], key[3])
        IN  /\ fills <= orders
            /\ orders <= signals
            /\ signals <= returned
            /\ event_queue_ = << >> =>
                   /\ fills = orders
                   /\ orders = signals
                   /\ signals = returned

\* C17: every dequeued event leaves the queue and is dequeued once; a Signal
\* yields exactly one Order with its ts, symbol, dir, qty and price; an Order
\* yields exactly one Fill with its symbol, dir and qty; so the Fills have
\* the directions of the Signals the strategy returned.
C17_ChainPreservesPayload ==
    [][/\ Len(dispatched') = Len(dispatched) + 1 =>
              LET event == Last(dispatched')
              IN  /\ event.id \in QueueIds(event_queue_)
                  /\ event.id \notin QueueIds(event_queue_')
                  /\ \A i \in 1..Len(dispatched) : dispatched[i].id # event.id
                  /\ event.type = "SignalEvent" =>
                         /\ pushed' = pushed + 1
                         /\ Len(event_queue_') = Len(event_queue_)
                         /\ Pushed(event_queue_') =
                                {[event EXCEPT !.type = "OrderEvent", !.id = pushed + 1]}
                  /\ event.type = "OrderEvent" =>
                         /\ pushed' = pushed + 1
                         /\ Len(event_queue_') = Len(event_queue_)
                         /\ \E fill \in Pushed(event_queue_') :
                                /\ Pushed(event_queue_') = {fill}
                                /\ fill.type = "FillEvent"
                                /\ fill.symbol = event.symbol
                                /\ fill.direction = event.direction
                                /\ fill.quantity = event.quantity
                  /\ event.type = "FillEvent" =>
                         /\ pushed' = pushed
                         /\ Len(event_queue_') = Len(event_queue_) - 1
       /\ ChainBalanced']_vars

\* an EXIT Signal went through the chain: Signal, Order and Fill dequeued
C17_Witness ==
    \E i, j, k \in 1..Len(dispatched) :
        /\ i < j /\ j < k
        /\ dispatched[i].type = "SignalEvent" /\ dispatched[i].direction = "EXIT"
        /\ dispatched[j].type = "OrderEvent" /\ dispatched[j].direction = "EXIT"
        /\ dispatched[k].type = "FillEvent" /\ dispatched[k].direction = "EXIT"

\* C18: a LONG Fill applied to a position with quantity > 0 leaves
\* avg_price = (avg_price * qty + fill.price * fill.qty) / (qty + fill.qty) and
\* quantity = qty + fill.qty, and leaves the position's entry_ts, direction
\* and entry regime as they were.
C18_AddsAtWeightedAverage ==
    [][(/\ Len(fill_log') = Len(fill_log) + 1
        /\ Last(fill_log').fill.direction = "LONG"
        /\ Held(Last(fill_log').fill.symbol) > 0)
       => LET fill == Last(fill_log').fill
              before == positions_[fill.symbol]
              after == positions_'[fill.symbol]
          IN  /\ after.quantity = before.quantity + fill.quantity
              /\ after.avg_price =
                     (before.avg_price * before.quantity + fill.price * fill.quantity)
                         \div (before.quantity + fill.quantity)
              /\ after.entry_timestamp_us = before.entry_timestamp_us
              /\ after.direction = before.direction
              /\ after.entry_regime = before.entry_regime
              /\ trade_log_' = trade_log_]_vars

\* a LONG Fill has just been applied to an open position, later than the Fill
\* that opened it and at another price than the position's
C18_Witness ==
    /\ fill_log # << >>
    /\ dispatched # << >>
    /\ Last(dispatched).id = Last(fill_log).fill.id
    /\ Last(fill_log).fill.direction = "LONG"
    /\ Last(fill_log).held > 0
    /\ LET fill == Last(fill_log).fill
           position == positions_[fill.symbol]
       IN  /\ position.quantity = Last(fill_log).held + fill.quantity
           /\ position.avg_price # fill.price
           /\ position.entry_timestamp_us < fill.timestamp_us

\* C19: while a classifier holds fewer than 20 ticks its regime is CHOPPY and
\* its position multiplier is 0; no LONG Signal is returned on any of the
\* first 19 ticks a strategy is given, and none at all when the lookback is
\* below 20.
C19_ChoppyDuringWarmup ==
    /\ \A s \in DOMAIN regime_classifier :
           Len(regime_classifier[s].tick_history_) < 20 =>
               /\ regime_classifier[s].current_regime_ = "CHOPPY"
               /\ getPositionMultiplier(regime_classifier[s]) = 0
    /\ \A i \in 1..Len(signal_log) :
           signal_log[i].signal.direction = "LONG" =>
               /\ signal_log[i].nth >= 20
               /\ regime_classifier[signal_log[i].signal.symbol].lookback_ >= 20

\* the nineteenth tick given to a strategy met every entry test but the
\* regime's, and no Signal was returned for it
C19_Witness ==
    /\ dispatched # << >>
    /\ Last(dispatched).type = "MarketUpdate"
    /\ signal_log = << >>
    /\ \E s \in DOMAIN strategies_ :
           /\ Received(s) = 19
           /\ Len(regime_classifier[s].tick_history_) = 19
           /\ regime_classifier[s].current_regime_ = "CHOPPY"
           /\ strategies_[s].indicators_.current_price_ = Last(dispatched).tick.price
           /\ checkEntryConditions([strategies_[s] EXCEPT !.regime_classifier_ = FALSE],
                                    regime_classifier[s], Last(dispatched).tick).result

\* C20: every LONG Signal of a strategy with a classifier is returned in
\* regime TRENDING with quantity base_position_size * 1.5 and the price of
\* the tick, and no Signal is returned on a tick on which the regime is CHOPPY.
C20_SizeFollowsRegime ==
    \A i \in 1..Len(signal_log) :
        LET signal == signal_log[i].signal
            strategy == strategies_[signal.symbol]
        IN  /\ signal_log[i].regime # "CHOPPY"
            /\ (signal.direction = "LONG" /\ strategy.regime_classifier_) =>
                   /\ signal_log[i].regime = "TRENDING"
                   /\ 10 * signal.quantity = 15 * strategy.base_position_size_
                   /\ signal.price = signal_log[i].tick.price

\* a strategy has just returned a LONG Signal of 150 in regime TRENDING, at
\* the price of the tick, having returned none on the tick before, its
\* twentieth or a later one
C20_Witness ==
    /\ dispatched # << >>
    /\ Last(dispatched).type = "MarketUpdate"
    /\ signal_log # << >>
    /\ LET entry == Last(signal_log)
           s == entry.signal.symbol
       IN  /\ entry.signal.direction = "LONG"
           /\ entry.nth = Received(s)
           /\ entry.nth > 20
           /\ entry.regime = "TRENDING"
           /\ regime_classifier[s].current_regime_ = "TRENDING"
           /\ entry.signal.quantity = 150
           /\ entry.signal.price = Last(dispatched).tick.price
           /\ \A i \in 1..Len(signal_log) : signal_log[i].nth # entry.nth - 1

\* C21: dispatching a MarketUpdate that resolves to a symbol with no
\* registered strategy only takes the event off the queue: nothing is pushed,
\* no Signal is returned, and the positions, the trade log, the strategies
\* and their classifiers are left as they were.
C21_UnregisteredDropped ==
    [][(/\ Len(dispatched') = Len(dispatched) + 1
        /\ Last(dispatched').type = "MarketUpdate"
        /\ ResolveSymbol(Last(dispatched').tick) \notin DOMAIN strategies_)
       => /\ pushed' = pushed
          /\ Len(event_queue_') = Len(event_queue_) - 1
          /\ QueueIds(event_queue_') = QueueIds(event_queue_) \ {Last(dispatched').id}
          /\ signal_log' = signal_log
          /\ positions_' = positions_
          /\ trade_log_' = trade_log_
          /\ strategies_' = strategies_
          /\ regime_classifier' = regime_classifier]_vars

\* with a strategy registered for B only, a MarketUpdate made from B's ticks
\* resolved to A and has just been dropped
C21_Witness ==
    /\ DOMAIN strategies_ = {"B"}
    /\ dispatched # << >>
    /\ Last(dispatched).type = "MarketUpdate"
    /\ Origin(Last(dispatched).id) = "B"
    /\ ResolveSymbol(Last(dispatched).tick) = "A"
    /\ Last(routed).id = Last(dispatched).id
    /\ Last(routed).symbol = ""
    /\ signal_log = << >>

\* C22: a loadTickData call over a stream of length 0 returns false, pushes
\* no event and leaves tick_data_ as it was (and a call over any other stream
\* returns true); when every stream loaded had length 0, run() dispatches
\* nothing and ends with getNumTrades() = 0 and getTotalPnL() = 0.
C22_EmptyStream ==
    [][/\ Len(loaded') = Len(loaded) + 1 =>
              LET call == Last(loaded')
              IN  /\ call.ok = (call.to >= call.from)
                  /\ pushed' = call.to
                  /\ ~call.ok => /\ tick_data_' = tick_data_
                                 /\ event_queue_' = event_queue_
                                 /\ pushed' = pushed
       /\ (pc' = "done" /\ \A i \in 1..Len(loaded') : ~loaded'[i].ok) =>
              /\ dispatched' = << >>
              /\ trade_log_' = << >>
              /\ getNumTrades' = 0
              /\ getTotalPnL' = 0]_vars

\* run() has returned with a strategy registered, after the one loadTickData
\* call, over an empty stream, returned false
C22_Witness ==
    /\ pc = "done"
    /\ Len(loaded) = 1
    /\ ~loaded[1].ok
    /\ loaded[1].to < loaded[1].from
    /\ DOMAIN strategies_ # {}
    /\ tick_data_ = << >>
    /\ event_queue_ = << >>

\* the TradeRecords made by EXIT Fills: all but those run() appends when it
\* closes the positions left open
SignalTrades == 1..(IF pc = "done" THEN drained.trades ELSE Len(trade_log_))

\* C23 as stated: every TradeRecord whose entry and exit were driven by
\* Signals has exit_ts - entry_ts >= 2 * latency_ms * 1000.
C23_RoundTripLatency ==
    \A i \in SignalTrades :
        trade_log_[i].exit_timestamp_us - trade_log_[i].entry_timestamp_us
            >= 2 * latency_ms_ * 1000

\* C23 as amended: every TradeRecord whose entry and exit were driven by
\* Signals has exit_ts >= entry_ts, where entry_ts is the timestamp of a LONG
\* Signal plus latency_ms * 1000 and exit_ts is the timestamp of a later EXIT
\* Signal plus latency_ms * 1000: the latency moves both alike, and
\* exit_ts - entry_ts is the distance between the two Signals.
C23_SignalDistance ==
    \A i \in SignalTrades :
        LET trade == trade_log_[i]
        IN  /\ trade.exit_timestamp_us >= trade.entry_timestamp_us
            /\ \E a, b \in 1..Len(signal_log) :
                   /\ a < b
                   /\ signal_log[a].signal.symbol = trade.symbol
                   /\ signal_log[b].signal.symbol = trade.symbol
                   /\ signal_log[a].signal.direction = "LONG"
                   /\ signal_log[b].signal.direction = "EXIT"
                   /\ trade.entry_timestamp_us
                          = signal_log[a].signal.timestamp_us + latency_ms_ * 1000
                   /\ trade.exit_timestamp_us
                          = signal_log[b].signal.timestamp_us + latency_ms_ * 1000

\* with a latency, an EXIT Fill has closed a position less than twice the
\* latency after the LONG Fill that opened it
C23_Witness ==
    /\ pc = "running"
    /\ latency_ms_ > 0
    /\ \E i \in 1..Len(trade_log_) :
           /\ trade_log_[i].exit_timestamp_us > trade_log_[i].entry_timestamp_us
           /\ trade_log_[i].exit_timestamp_us - trade_log_[i].entry_timestamp_us
                  < 2 * latency_ms_ * 1000

\* the prices passed to updateVWAP since the last reset
SessionPrices ==
    LET resets == {i \in 1..Len(calls) : calls[i].reset}
        from == IF resets = {} THEN 1
                ELSE CHOOSE i \in resets : \A j \in resets : j <= i
    IN  {calls[i].price : i \in {k \in from..Len(calls) : calls[k].op = "updateVWAP"}}

\* C24: whenever the cumulative volume is > 0, getVWAP() is at least the
\* least and at most the greatest price passed to updateVWAP since the last
\* reset.
C24_VwapWithinSessionRange ==
    LET ind == strategies_["A"].indicators_
    IN  (pc = "indicators" /\ ind.cumulative_volume_ > 0) =>
            /\ \E price \in SessionPrices : price <= getVWAP(ind)
            /\ \E price \in SessionPrices : getVWAP(ind) <= price

\* a session that began after the first call, of two prices with different
\* volumes, and a VWAP strictly between the two prices
C24_Witness ==
    LET ind == strategies_["A"].indicators_
    IN  /\ pc = "indicators"
        /\ ind.cumulative_volume_ > 0
        /\ calls # << >>
        /\ calls[1].op = "updateVWAP"
        /\ \E i \in 2..Len(calls) : calls[i].reset
        /\ \E i, j \in 1..Len(calls) : calls[i].volume > calls[j].volume /\ calls[j].volume > 0
        /\ \E low, high \in SessionPrices : low < getVWAP(ind) /\ getVWAP(ind) < high

\* a history after one more value, kept to a capacity by dropping the oldest
Shifted(before, after, capacity) ==
    /\ after # << >>
    /\ SubSeq(after, 1, Len(after) - 1)
           = IF Len(before) >= capacity THEN Tail(before) ELSE before

\* C25: the MACD histogram history never holds more than 10 values, the
\* volume history never more than 20 entries and a classifier's tick history
\* never more than lookback ticks; each MarketUpdate a strategy is given
\* appends one element to each of them and, on overflow, drops the oldest.
C25_HistoriesBounded ==
    [][\A s \in DOMAIN strategies_' :
          LET ind == strategies_'[s].indicators_
              rc == regime_classifier'[s]
          IN  /\ Len(ind.macd_histogram_history_) <= 10
              /\ Len(ind.volume_history_) <= 20
              /\ Len(rc.tick_history_) <= rc.lookback_
              /\ (Len(routed') = Len(routed) + 1 /\ Last(routed').symbol = s) =>
                     LET tick == Last(dispatched').tick
                         was == strategies_[s].indicators_
                     IN  /\ Shifted(was.macd_histogram_history_,
                                    ind.macd_histogram_history_, 10)
                         /\ Shifted(was.volume_history_, ind.volume_history_, 20)
                         /\ Last(ind.volume_history_) = <<tick.timestamp_us, tick.volume>>
                         /\ Shifted(regime_classifier[s].tick_history_,
                                    rc.tick_history_, rc.lookback_)
                         /\ Last(rc.tick_history_) = tick]_vars

\* a strategy given more than 20 ticks, whose three histories are full and
\* have each dropped their oldest element
C25_Witness ==
    \E s \in DOMAIN strategies_ :
        /\ Received(s) > 20
        /\ Len(strategies_[s].indicators_.macd_histogram_history_) = 10
        /\ Len(strategies_[s].indicators_.volume_history_) = 20
        /\ strategies_[s].indicators_.volume_history_[1][1] > tick_data_[s][1].timestamp_us
        /\ Len(regime_classifier[s].tick_history_) = regime_classifier[s].lookback_
        /\ regime_classifier[s].tick_history_[1] # tick_data_[s][1]

\* the Signal, Order and Fill events a step of run() pushed into the queue
PushedByStep(before, q) ==
    {q[i] : i \in {k \in 1..Len(q) : q[k].id > before /\ q[k].type # "MarketUpdate"}}

\* C26 as stated: every Signal, Order or Fill pushed while run() dispatches an
\* event has a timestamp strictly greater than that event's.
C26_PushedStrictlyLater ==
    [][Len(dispatched') = Len(dispatched) + 1 =>
           \A e \in PushedByStep(pushed, event_queue_') :
               e.timestamp_us > Last(dispatched').timestamp_us]_vars

\* C26 as amended: every Signal, Order or Fill pushed while run() dispatches
\* an event has a timestamp greater than or equal to that event's: a Signal
\* carries the timestamp of its MarketUpdate, an Order that of its Signal, and
\* a Fill that of its Order plus latency_ms * 1000, which is strictly greater
\* only when latency_ms > 0.
C26_PushedNotEarlier ==
    [][Len(dispatched') = Len(dispatched) + 1 =>
           LET event == Last(dispatched')
           IN  /\ current_time_us_' = event.timestamp_us
               /\ \A e \in PushedByStep(pushed, event_queue_') :
                      /\ e.timestamp_us >= event.timestamp_us
                      /\ e.type = "SignalEvent" =>
                             /\ event.type = "MarketUpdate"
                             /\ e.timestamp_us = event.timestamp_us
                      /\ e.type = "OrderEvent" =>
                             /\ event.type = "SignalEvent"
                             /\ e.timestamp_us = event.timestamp_us
                      /\ e.type = "FillEvent" =>
                             /\ event.type = "OrderEvent"
                             /\ e.timestamp_us = event.timestamp_us + latency_ms_ * 1000
                             /\ (e.timestamp_us > event.timestamp_us) = (latency_ms_ > 0)]_vars

\* without latency, a Signal, its Order and then a Fill were dispatched at the
\* timestamp of the MarketUpdate the Signal was returned for
C26_Witness ==
    \E i \in 1..(Len(dispatched) - 3) :
        /\ dispatched[i].type = "MarketUpdate"
        /\ dispatched[i + 1].type = "SignalEvent"
        /\ dispatched[i + 2].type = "OrderEvent"
        /\ dispatched[i + 1].timestamp_us = dispatched[i].timestamp_us
        /\ dispatched[i + 2].timestamp_us = dispatched[i].timestamp_us
        /\ \E j \in (i + 3)..Len(dispatched) :
               /\ dispatched[j].type = "FillEvent"
               /\ dispatched[j].timestamp_us = dispatched[i].timestamp_us + latency_ms_ * 1000
               /\ latency_ms_ = 0

\* C27: a MarketUpdate given to a strategy returns at most one Signal, and
\* each Signal returned is pushed; a strategy that holds a position returns
\* nothing or one EXIT and leaves was_long_ema_above_short_ alone, a strategy
\* that holds none returns nothing or one LONG; a SHORT is never returned.
C27_OneSignalPerTick ==
    [][\A s \in DOMAIN strategies_ :
          (Len(routed') = Len(routed) + 1 /\ Last(routed').symbol = s) =>
              LET returned == SubSeq(signal_log', Len(signal_log) + 1, Len(signal_log'))
              IN  /\ Len(returned) <= 1
                  /\ pushed' = pushed + Len(returned)
                  /\ Len(event_queue_') = Len(event_queue_) - 1 + Len(returned)
                  /\ PushedByStep(pushed, event_queue_')
                         = {returned[i].signal : i \in 1..Len(returned)}
                  /\ \A i \in 1..Len(returned) :
                         /\ returned[i].signal.type = "SignalEvent"
                         /\ returned[i].signal.symbol = s
                         /\ returned[i].signal.direction # "SHORT"
                         /\ returned[i].signal.direction
                                = IF hasPosition(strategies_[s]) THEN "EXIT" ELSE "LONG"
                  /\ hasPosition(strategies_[s]) =>
                         strategies_'[s].was_long_ema_above_short_
                             = strategies_[s].was_long_ema_above_short_]_vars

\* a strategy that holds no position has just returned one LONG Signal, the
\* first Signal of the run, for a tick after its twentieth, and the Signal is
\* the event pushed last
C27_Witness ==
    /\ dispatched # << >>
    /\ Last(dispatched).type = "MarketUpdate"
    /\ Len(signal_log) = 1
    /\ signal_log[1].signal.direction = "LONG"
    /\ signal_log[1].position = 0
    /\ signal_log[1].tick = Last(dispatched).tick
    /\ signal_log[1].nth = Received(signal_log[1].signal.symbol)
    /\ signal_log[1].nth > 20
    /\ Len(event_queue_) >= 1
    /\ signal_log[1].signal.id = pushed

\* the conjunction of the entry conditions, from the values the indicators
\* and the classifier report
EntryConditions(st, rc, tick) ==
    LET ind == st.indicators_
    IN  /\ getRelativeVolume(ind) >= st.min_relative_volume_
        /\ getGapUpPercent(ind) >= st.min_gap_up_percent_
        /\ tick.price > getEMA(ind, 90)
        /\ tick.price > getEMA(ind, 200)
        /\ getEMA(ind, 90) > getEMA(ind, 200)
        /\ getEMA(ind, 9) # 0
        /\ getEMA(ind, 90) # 0
        /\ getEMA(ind, 9) > getEMA(ind, 90)
        /\ getVWAP(ind) > 0
        /\ tick.price > getVWAP(ind)
        /\ Len(ind.macd_histogram_history_) >= 2
        /\ ind.macd_histogram_history_[Len(ind.macd_histogram_history_)]
               > ind.macd_histogram_history_[Len(ind.macd_histogram_history_) - 1]
        /\ tick.ask_size # 0
        /\ tick.bid_size * RatioScale >= st.min_bid_ask_ratio_ * tick.ask_size
        /\ rc.current_regime_ = "TRENDING"

\* the strategy that was just given the MarketUpdate dequeued last, if any
JustGiven ==
    {s \in DOMAIN strategies_ :
        /\ pc = "running"
        /\ dispatched # << >>
        /\ Last(dispatched).type = "MarketUpdate"
        /\ Last(routed).id = Last(dispatched).id
        /\ Last(routed).symbol = s}

\* C28: on every tick (of positive price) given to a strategy with a
\* classifier, checkEntryConditions is true exactly when relative_volume >=
\* min_relative_volume, gap_up_percent >= min_gap_up_percent, price > EMA(90),
\* price > EMA(200), EMA(90) > EMA(200), EMA(9) > EMA(90) with both non-zero,
\* price > VWAP > 0, the MACD histogram is expanding, ask_size # 0 with
\* bid_size / ask_size >= min_bid_ask_ratio, and the regime is TRENDING; and
\* the strategy, which holds no position, returns a LONG exactly then.
C28_EntryIsConjunction ==
    \A s \in JustGiven :
        LET st == strategies_[s]
            rc == regime_classifier[s]
            tick == Last(dispatched).tick
            long == \E i \in 1..Len(signal_log) :
                        /\ signal_log[i].signal.symbol = s
                        /\ signal_log[i].nth = Received(s)
                        /\ signal_log[i].signal.direction = "LONG"
        IN  /\ st.regime_classifier_
            /\ checkEntryConditions(st, rc, tick).result = EntryConditions(st, rc, tick)
            /\ long = EntryConditions(st, rc, tick)

\* a tick with no ask has just been given to a strategy: every other entry
\* condition holds on it and no Signal was returned for it
C28_Witness ==
    \E s \in JustGiven :
        LET st == strategies_[s]
            tick == Last(dispatched).tick
        IN  /\ tick.ask_size = 0
            /\ EntryConditions(st, regime_classifier[s], [tick EXCEPT !.ask_size = 1])
            /\ \A i \in 1..Len(signal_log) : signal_log[i].nth # Received(s)

\* the disjunction of the exit conditions, from the values the indicators and
\* the classifier report
ExitConditions(st, rc, tick) ==
    LET ind == st.indicators_
        h == ind.macd_histogram_history_
    IN  \/ getVWAP(ind) = 0
        \/ ~(tick.price > getVWAP(ind))
        \/ /\ Len(h) < 2 \/ ~(h[Len(h)] > h[Len(h) - 1])
           /\ h # << >>
           /\ h[Len(h)] < 0
        \/ rc.current_regime_ = "CHOPPY"

\* C29: on the indicators and the regime a strategy with a classifier has
\* after any tick, checkExitConditions is true exactly when the price is not
\* above VWAP (or VWAP is 0), or the MACD histogram is not expanding and its
\* current value is < 0, or the regime is CHOPPY.
C29_ExitIsDisjunction ==
    \A s \in JustGiven :
        /\ strategies_[s].regime_classifier_
        /\ checkExitConditions(strategies_[s], regime_classifier[s], Last(dispatched).tick)
               = ExitConditions(strategies_[s], regime_classifier[s], Last(dispatched).tick)

\* after a tick in regime TRENDING with the price above VWAP, the histogram
\* is not expanding but is not negative, and checkExitConditions is false
C29_Witness ==
    \E s \in JustGiven :
        LET ind == strategies_[s].indicators_
        IN  /\ regime_classifier[s].current_regime_ = "TRENDING"
            /\ getVWAP(ind) > 0
            /\ Last(dispatched).tick.price > getVWAP(ind)
            /\ ~isMACDHistogramExpanding(ind)
            /\ getMACDHistogram(ind) >= 0
            /\ ~checkExitConditions(strategies_[s], regime_classifier[s],
                                    Last(dispatched).tick)

\* C30: after every MarketUpdate given to a strategy, its
\* was_long_ema_above_short_ is EMA(9) > EMA(90) of the indicators the tick
\* has just updated, whether or not the other entry checks passed.
C30_CrossoverBitFollowsEmas ==
    \A s \in JustGiven :
        strategies_[s].was_long_ema_above_short_
            = (getEMA(strategies_[s].indicators_, 9) > getEMA(strategies_[s].indicators_, 90))

\* C31: each EMA stage is seeded once, by the first MarketUpdate a strategy is
\* given, and every later MarketUpdate applies alpha*x + (1-alpha)*ema to it:
\* EMA(9), EMA(90), EMA(200), ema_12, ema_26 and the signal line (period 9,
\* applied to ema_12 - ema_26), also when the stage's value was 0.
C31_StagesSeededOnce ==
    [][\A s \in DOMAIN strategies_' :
          (Len(routed') = Len(routed) + 1 /\ Last(routed').symbol = s) =>
              LET price == Last(dispatched').tick.price
                  was == strategies_[s].indicators_
                  ind == strategies_'[s].indicators_
                  macd_line == ind.ema_12_ - ind.ema_26_
              IN  IF Received(s) = 0
                  THEN /\ \A period \in {9, 90, 200} : getEMA(ind, period) = price
                       /\ ind.ema_12_ = price
                       /\ ind.ema_26_ = price
                       /\ ind.macd_signal_ema_9_ = macd_line
                  ELSE /\ \A period \in {9, 90, 200} :
                              getEMA(ind, period) = Smooth(price, getEMA(was, period), period)
                       /\ ind.ema_12_ = Smooth(price, was.ema_12_, 12)
                       /\ ind.ema_26_ = Smooth(price, was.ema_26_, 26)
                       /\ ind.macd_signal_ema_9_ =
                              Smooth(macd_line, was.macd_signal_ema_9_, 9)]_vars

\* the updateVWAP calls made since construction or the last resetVWAP call
UpdatesSinceReset ==
    LET resets == {i \in 1..Len(calls) : calls[i].op = "resetVWAP"}
        from == IF resets = {} THEN 0
                ELSE CHOOSE i \in resets : \A j \in resets : j <= i
    IN  SubSeq(calls, from + 1, Len(calls))

\* C32: the accumulators are zeroed only by the first updateVWAP after
\* construction or resetVWAP; after n updates since then cumulative_volume_
\* is the sum of the n volumes and cumulative_price_volume_ the sum of
\* price * volume, whatever the timestamps are, 0 included.
C32_AccumulatorsSumSession ==
    LET ind == strategies_["A"].indicators_
        session == UpdatesSinceReset
    IN  pc = "indicators" =>
            /\ ind.cumulative_volume_ =
                   SumSeq([i \in 1..Len(session) |-> session[i].volume])
            /\ ind.cumulative_price_volume_ =
                   SumSeq([i \in 1..Len(session) |-> session[i].price * session[i].volume])

\* the number of ticks loaded, over all symbols
TotalTicks ==
    SumSeq([i \in 1..Len(Keys(tick_data_)) |-> Len(tick_data_[Keys(tick_data_)[i]])])

\* the types of the events a step of run() has pushed
PushedTypes(q) ==
    [i \in 1..Cardinality({k \in 1..Len(q) : q[k].id > pushed}) |->
        LET k == CHOOSE ks \in [1..i -> 1..Len(q)] :
                     /\ \A a \in 1..i : q[ks[a]].id > pushed
                     /\ \A a, b \in 1..i : a < b => ks[a] < ks[b]
        IN  q[k[i]].type]

\* C33: run() terminates: a MarketUpdate pushes at most one Signal, a Signal
\* exactly one Order, an Order exactly one Fill and a Fill nothing; at most
\* 4 * |ticks| events are dispatched, the queue never holds more than
\* |ticks| + 1 events, and a run that has started reaches its end with the
\* queue empty.
C33_RunTerminates ==
    /\ [](pc \in {"running", "done"} =>
              /\ Len(dispatched) <= 4 * TotalTicks
              /\ Len(event_queue_) <= TotalTicks + 1)
    /\ [][(pc = "running" /\ Len(dispatched') = Len(dispatched) + 1) =>
              LET types == PushedTypes(event_queue_')
              IN  /\ Len(event_queue_') = Len(event_queue_) - 1 + Len(types)
                  /\ CASE Last(dispatched').type = "MarketUpdate" ->
                              types \in {<< >>, <<"SignalEvent">>}
                        [] Last(dispatched').type = "SignalEvent" ->
                              types = <<"OrderEvent">>
                        [] Last(dispatched').type = "OrderEvent" ->
                              types = <<"FillEvent">>
                        [] Last(dispatched').type = "FillEvent" ->
                              types = << >>]_vars
    /\ (pc = "running" ~> (pc = "done" /\ event_queue_ = << >>))

\* a finished run of at least 20 ticks in which a MarketUpdate, a Signal, an
\* Order and a Fill were dispatched, the queue being empty
C33_Witness ==
    /\ pc = "done"
    /\ event_queue_ = << >>
    /\ TotalTicks >= 20
    /\ Len(dispatched) > TotalTicks + 2
    /\ \A type \in {"MarketUpdate", "SignalEvent", "OrderEvent", "FillEvent"} :
           \E i \in 1..Len(dispatched) : dispatched[i].type = type

\* C34: every position has quantity >= 0 and direction LONG, a position of
\* quantity 0 has avg_price 0, and no position is open once run() has
\* returned; a quantity leaves 0 only when a LONG Fill for its symbol is
\* applied, and returns to 0 only when an EXIT Fill for its symbol is applied
\* or run() closes the remaining positions.
C34_PositionsLongOrFlat ==
    /\ [](\A s \in DOMAIN positions_ :
              /\ positions_[s].quantity >= 0
              /\ positions_[s].direction = "LONG"
              /\ positions_[s].quantity = 0 => positions_[s].avg_price = 0
              /\ pc = "done" => positions_[s].quantity = 0)
    /\ [][\A s \in DOMAIN positions_' :
              LET applied == Len(fill_log') = Len(fill_log) + 1
                  fill == Last(fill_log').fill
              IN  /\ (Held(s) = 0 /\ positions_'[s].quantity # 0) =>
                         /\ applied
                         /\ fill.symbol = s
                         /\ fill.direction = "LONG"
                  /\ (Held(s) # 0 /\ positions_'[s].quantity = 0) =>
                         \/ applied /\ fill.symbol = s /\ fill.direction = "EXIT"
                         \/ pc = "running" /\ pc' = "done"]_vars

\* a finished run in which a position was opened by a LONG Fill, closed by
\* an EXIT Fill and left alone by a later SHORT Fill
C34_Witness ==
    /\ pc = "done"
    /\ Len(trade_log_) = 1
    /\ \E i, j, k \in 1..Len(fill_log) :
           /\ i < j /\ j < k
           /\ fill_log[i].fill.direction = "LONG"
           /\ fill_log[i].held = 0
           /\ fill_log[j].fill.direction = "EXIT"
           /\ fill_log[j].held # 0
           /\ fill_log[k].fill.direction = "SHORT"
    /\ positions_ # << >>
    /\ \A s \in DOMAIN positions_ : positions_[s].quantity = 0

\* C35: applying an EXIT Fill for a symbol whose quantity is 0, or a SHORT
\* Fill whatever the position is, appends no TradeRecord and leaves every
\* position as it was, the position of the Fill's symbol being created with
\* quantity 0 if there was none.
C35_IdleFillsChangeNothing ==
    [][(/\ Len(fill_log') = Len(fill_log) + 1
        /\ \/ Last(fill_log').fill.direction = "SHORT"
           \/ /\ Last(fill_log').fill.direction = "EXIT"
              /\ Held(Last(fill_log').fill.symbol) = 0) =>
           /\ trade_log_' = trade_log_
           /\ DOMAIN positions_' = DOMAIN positions_ \cup {Last(fill_log').fill.symbol}
           /\ \A s \in DOMAIN positions_' :
                  positions_'[s] = IF s \in DOMAIN positions_ THEN positions_[s]
                                   ELSE NewPosition(s)]_vars

\* an EXIT Fill was applied when nothing was held, and later a SHORT Fill
\* while a position was open, which is still open
C35_Witness ==
    /\ \E i, j \in 1..Len(fill_log) :
           /\ i < j
           /\ fill_log[i].fill.direction = "EXIT"
           /\ fill_log[i].held = 0
           /\ fill_log[j].fill.direction = "SHORT"
           /\ fill_log[j].held # 0
           /\ j = Len(fill_log)
           /\ Held(fill_log[j].fill.symbol) = fill_log[j].held
    /\ trade_log_ = << >>

\* C36: a call of run() made after run() has returned, with nothing loaded
\* in between, dispatches no event, appends no TradeRecord and leaves
\* getTotalPnL() and every position as they were.
C36_SecondRunChangesNothing ==
    [][(pc = "done" /\ Len(calls') = Len(calls) + 1) =>
           /\ dispatched' = dispatched
           /\ event_queue_' = << >>
           /\ trade_log_' = trade_log_
           /\ getTotalPnL' = getTotalPnL
           /\ positions_' = positions_]_vars

\* run() was called again after a run that dispatched Fills, closed a
\* position on an EXIT Fill and closed another one at its end
C36_Witness ==
    /\ pc = "done"
    /\ calls # << >>
    /\ Last(calls).op = "run"
    /\ fill_log # << >>
    /\ drained.open # {}
    /\ Len(trade_log_) = 2
    /\ getTotalPnL # 0

====
